---- MODULE Spec2Model ----
(***************************************************************************)
(* State-machine model of the gesture shooter: the Game object             *)
(* (src/js/effects.js, class Game), the page wiring that drives it         *)
(* (src/js/audio.js: init, visibilitychange, keydown) and the callbacks    *)
(* the hand tracker delivers (src/js/hand-tracking.js: processResults).    *)
(*                                                                         *)
(* Time is Date.now() in milliseconds.  Timers (setTimeout) are queues of  *)
(* deadlines; a timer may run at any moment at or after its deadline.      *)
(* requestAnimationFrame callbacks are counted in rafPending.              *)
(***************************************************************************)
EXTENDS Integers, Sequences, FiniteSets, TLC

(***************************************************************************)
(* Program constants                                                       *)
(***************************************************************************)
comboTimeout  == 2000
shootCooldown == 200
maxCount      == 4
lifeTime      == 8000
discPoints    == 100
comboCap      == 10
respawnDelay  == 300
spawnStagger  == 400
loadDelay     == 800
magnetRange   == 120
\* magnetConfig.strength, in tenths
magnetStrengthTenths == 6
innerWidth    == 800
innerHeight   == 600

(***************************************************************************)
(* Bounds of the model                                                     *)
(***************************************************************************)
\* the clock is explored for MaxTicks quanta after the initial state
MaxTicks == 1
\* at most MaxRaf requestAnimationFrame callbacks are pending at once
MaxRaf == 2

\* the session opened with 0 or MaxMisses misses
MaxMisses == 16

\* and went on with at most MaxStreak consecutive hits
MaxStreak == 23

\* the steps by which the clock advances between two callbacks
Quantum == comboTimeout \div 2
\* Date.now() when the page loads: milliseconds since 1970, far above any
\* duration of the program
StartNow == 50 * comboTimeout
Horizon == StartNow + MaxTicks * Quantum

\* lengths of the aim computation are kept in units of 1 / Scale px
Scale == 10 * magnetRange

\* lockedTarget = null
NoDisc == 0
\* the accuracy element before updateAccuracy has ever written it
Unwritten == 0 - 1
\* firedAt before any fire event
Never == 0 - 1

\* fingertip positions the tracker publishes, in quarters of the screen
FingerTips == {[x |-> 1, y |-> 2]}
\* where the renderer's projection puts a target on screen: 60 px and 120 px
\* from the aim point of that fingertip
NearPoint == [x |-> 200, y |-> 360]
FarPoint  == [x |-> 200, y |-> 420]
\* on the aim point of that fingertip, and 60 px from it in another direction
AtAim     == [x |-> 200, y |-> 300]
TiePoint  == [x |-> 260, y |-> 300]

VARIABLES
    \* Game.state
    score, combo, maxCombo, hits, shots, lastHitTime,
    targetX, targetY,
    isGunPose, wasThumbUp, isShooting,
    lockedTarget, wasLocked, running,
    \* Game.discs (registry order) and the identity of the next disc object
    discs, nextId,
    \* text of #accuracy
    accuracyDisplay,
    \* pending setTimeout callbacks, as deadlines in scheduling order
    cooldownTimers, respawnTimers, spawnTimers,
    \* pending requestAnimationFrame callbacks
    rafPending,
    \* init(): "init", "tracking" (camera started, load screen delay running),
    \* "started", "failed"; initTimer is the deadline of the 800 ms delay
    phase, initTimer,
    \* Date.now()
    now,
    \* history: "down" when updateGesture has fired and no detection cycle has
    \* reported the thumb up since, "up" when one has, "none" at page load
    sinceFire,
    \* history: onGestureLost ran and no gun-pose update has arrived since
    lostSince,
    \* history: lockedTarget was set before the last onGestureLost
    staleLock,
    \* history: a thumb-down edge was swallowed by the cooldown and every
    \* detection cycle since has reported the thumb down
    consumed,
    \* finalTargetX, finalTargetY of the last update(), in units of 1 / Scale px
    finalTarget,
    \* history: the last update() ended with a target locked
    tickLocked,
    \* history: update() has run since the last pause()
    ranSincePause,
    \* history: the last tick ended in the catch block of gameLoop(), and the
    \* parity of the number of such ticks
    frameFault, faultParity,
    \* history: when the last fire event happened, Never before the first
    firedAt,
    \* history: the calls of the audio manager made by the last shoot(), in order
    notified,
    \* HandTracker: the published gestureState, the smoothed aim point, whether
    \* the skeleton canvas has a drawing context
    gestureState, smoothedPosition, skeletonCtx,
    \* history: the callbacks the last processResults() invoked, in order, and
    \* the number of detection results processed
    signals, resultCount,
    \* HandTracker.lastDetectionTime
    lastDetectionTime,
    \* history: what the last detect() did with its camera frame ("none" before
    \* the first), and the times of the last two hands.send() calls
    frameFate, sendTimes

scoreVars   == <<score, combo, maxCombo, hits, shots, lastHitTime, accuracyDisplay>>
aimVars     == <<targetX, targetY>>
gestureVars == <<isGunPose, wasThumbUp>>
lockVars    == <<lockedTarget, wasLocked>>
discVars    == <<discs, nextId>>
timerVars   == <<cooldownTimers, respawnTimers, spawnTimers>>
loopVars    == <<running, rafPending>>
initVars    == <<phase, initTimer>>
fireHist    == <<sinceFire, firedAt, notified>>
histVars    == <<fireHist, lostSince, staleLock, consumed>>
faultVars   == <<frameFault, faultParity>>
tickVars    == <<finalTarget, tickLocked, ranSincePause, faultVars>>
detectVars  == <<lastDetectionTime, frameFate, sendTimes>>
trackerVars == <<gestureState, smoothedPosition, skeletonCtx, signals, resultCount,
                 detectVars>>

vars == <<scoreVars, aimVars, gestureVars, isShooting, lockVars, discVars,
          timerVars, loopVars, initVars, now, histVars, tickVars, trackerVars>>

(***************************************************************************)
(* Helpers                                                                 *)
(***************************************************************************)
Min(a, b) == IF a < b THEN a ELSE b

Max(a, b) == IF a > b THEN a ELSE b

\* discs.indexOf(disc): 0 when absent
IndexOf(ds, id) ==
    IF \E i \in 1..Len(ds) : ds[i].id = id
    THEN CHOOSE i \in 1..Len(ds) : ds[i].id = id
    ELSE 0

\* discs.splice(index, 1)
RemoveAt(ds, k) == [i \in 1..(Len(ds) - 1) |-> IF i < k THEN ds[i] ELSE ds[i + 1]]

\* a removeDisc that takes the last entry of the registry
RemoveDiscLast(ds, id) == RemoveAt(ds, Len(ds))

\* removeDisc
RemoveDisc(ds, id) ==
    IF IndexOf(ds, id) > 0 THEN RemoveAt(ds, IndexOf(ds, id)) ELSE ds

\* targets worth half the points
PointsOfHalved(ds, id) == discPoints \div 2

\* disc.userData.points of a disc object
PointsOf(ds, id) ==
    IF IndexOf(ds, id) > 0 THEN ds[IndexOf(ds, id)].points ELSE discPoints

\* the disc object createDisc pushes
NewDisc(id, t) == [id |-> id, points |-> discPoints, createdAt |-> t]

\* createDisc called n times at time t
RECURSIVE CreateDiscs(_, _, _, _)
CreateDiscs(ds, id, n, t) ==
    IF n = 0 THEN ds ELSE CreateDiscs(Append(ds, NewDisc(id, t)), id + 1, n - 1, t)

\* squared screen distance of a projected position from the aim point
Dist2(p, tx, ty) == (p.x - tx) * (p.x - tx) + (p.y - ty) * (p.y - ty)

\* a nearest-disc loop that prefers the later of two equally near discs
RECURSIVE NearestFromLast(_, _, _, _, _)
NearestFromLast(proj, tx, ty, i, best) ==
    IF i > Len(proj) THEN best
    ELSE LET d2 == Dist2(proj[i], tx, ty)
             closer == (best = 0 \/ d2 <= Dist2(proj[best], tx, ty))
                       /\ d2 < magnetRange * magnetRange
         IN  NearestFromLast(proj, tx, ty, i + 1, IF closer THEN i ELSE best)

\* the nearest-disc loop of update(): index of the selected disc, 0 for none.
\* best is the index held in nearestDisc (0: nearestDist is still Infinity).
RECURSIVE NearestFrom(_, _, _, _, _)
NearestFrom(proj, tx, ty, i, best) ==
    IF i > Len(proj) THEN best
    ELSE LET d2 == Dist2(proj[i], tx, ty)
             closer == (best = 0 \/ d2 < Dist2(proj[best], tx, ty))
                       /\ d2 < magnetRange * magnetRange
         IN  NearestFrom(proj, tx, ty, i + 1, IF closer THEN i ELSE best)

NearestDisc(proj, tx, ty) == NearestFrom(proj, tx, ty, 1, 0)

\* Math.sqrt on the squared distances of the model, which are squares of
\* whole numbers of pixels whenever a target is in range
Sqrt(n) == CHOOSE r \in 0..n : r * r <= n /\ n < (r + 1) * (r + 1)

\* a magnet that pulls harder the farther the target is
StrengthGrowing(d) == d * magnetStrengthTenths

\* magnetStrength for a target at distance d, in units of 1 / Scale:
\* (1 - d / range) * strength
MagnetStrength(d) == (magnetRange - d) * magnetStrengthTenths

\* finalTargetX and finalTargetY with no target selected
Unpulled(tx, ty) == [x |-> tx * Scale, y |-> ty * Scale]

\* finalTargetX and finalTargetY for the selected target projected at p
Pulled(p, tx, ty) ==
    [x |-> tx * Scale + (p.x - tx) * MagnetStrength(Sqrt(Dist2(p, tx, ty))),
     y |-> ty * Scale + (p.y - ty) * MagnetStrength(Sqrt(Dist2(p, tx, ty)))]

\* projections tried by the model: every target at the far point, or the
\* first of the registry at the near point
Projections(n) ==
    {[i \in 1..n |-> IF i = k THEN NearPoint ELSE FarPoint] : k \in 0..Min(n, 1)}

(***************************************************************************)
(* new HandTracker()                                                       *)
(***************************************************************************)
\* landmark coordinates are kept in units of 1 / Grid of the camera image
Grid == 100

\* gestureState.landmarks = null; a hand's landmarks lm are kept as <<lm>>
Null == <<>>

\* the number 0 as a double (see MantBits below)
FloatZero == [m |-> <<>>, e |-> 0]

\* a point x / den, y / den of the camera image, in units of 1 / Grid
Half == [x |-> Grid \div 2, y |-> Grid \div 2, den |-> 1]

NewHandTracker ==
    /\ gestureState = [isGunPose |-> FALSE, isThumbUp |-> FALSE, fingerTip |-> Half,
                       confidence |-> FloatZero, landmarks |-> Null]
    /\ smoothedPosition = Half
    /\ signals = <<>>
    /\ resultCount = 0
    /\ lastDetectionTime = 0
    /\ frameFate = "none" /\ sendTimes = <<>>

(***************************************************************************)
(* Initial state: new Game() and the start of init()                       *)
(***************************************************************************)
NewGame ==
    /\ score = 0 /\ combo = 1 /\ maxCombo = 1 /\ hits = 0 /\ shots = 0
    /\ lastHitTime = 0
    /\ targetX = innerWidth \div 2 /\ targetY = innerHeight \div 2
    /\ isGunPose = FALSE /\ wasThumbUp = TRUE /\ isShooting = FALSE
    /\ lockedTarget = NoDisc /\ wasLocked = FALSE /\ running = FALSE
    /\ discs = <<>> /\ nextId = 1
    /\ accuracyDisplay = Unwritten
    /\ cooldownTimers = <<>> /\ respawnTimers = <<>> /\ spawnTimers = <<>>
    /\ rafPending = 0
    /\ phase = "init" /\ initTimer = 0
    /\ now = StartNow
    /\ sinceFire = "none" /\ firedAt = Never /\ notified = <<>> /\ lostSince = FALSE /\ staleLock = FALSE
    /\ consumed = FALSE
    /\ finalTarget = Unpulled(innerWidth \div 2, innerHeight \div 2)
    /\ tickLocked = FALSE /\ ranSincePause = FALSE
    /\ frameFault = FALSE /\ faultParity = FALSE

Init ==
    /\ NewGame
    /\ NewHandTracker /\ skeletonCtx = FALSE

(***************************************************************************)
(* Game.miss                                                               *)
(***************************************************************************)
\* a miss that also stamps the time of the shot
MissStampsTime ==
    /\ combo' = 1
    /\ lastHitTime' = now
    /\ UNCHANGED <<score, maxCombo, hits, discVars, respawnTimers, lockVars, staleLock>>

Miss ==
    /\ combo' = 1
    /\ UNCHANGED <<score, maxCombo, hits, lastHitTime, discVars, respawnTimers,
                   lockVars, staleLock>>

(***************************************************************************)
(* Game.hitTarget(disc), disc given by its identity                        *)
(***************************************************************************)
\* a combo that is not capped
ComboUncapped(c, last, t) ==
    IF t - last < comboTimeout THEN c + 1 ELSE 1

\* a combo window that includes the timeout itself
ComboInclusiveTimeout(c, last, t) ==
    IF t - last <= comboTimeout THEN Min(c + 1, comboCap) ELSE 1

\* the combo update: this.state.combo after the hit at time t
ComboAfterHit(c, last, t) ==
    IF t - last < comboTimeout THEN Min(c + 1, comboCap) ELSE 1

\* a score that ignores the multiplier
ScoreIgnoringCombo(s, pts, c) == s + pts

\* this.state.score += points, points = disc.userData.points * combo
ScoreAfterHit(s, pts, c) == s + pts * c

\* a hit that leaves the lock on the disc it removed
LockKept(id) == id

\* this.state.lockedTarget = null at the end of hitTarget(disc)
LockAfterHit(id) == NoDisc

\* a hit after which maxCombo is the combo just reached
ScoredMaxIsCombo(st, pts, t) ==
    [hits        |-> st.hits + 1,
     combo       |-> ComboAfterHit(st.combo, st.lastHitTime, t),
     lastHitTime |-> t,
     maxCombo    |-> ComboAfterHit(st.combo, st.lastHitTime, t),
     score       |-> ScoreAfterHit(st.score, pts,
                                   ComboAfterHit(st.combo, st.lastHitTime, t))]

\* the scoring fields after a hit at time t on a disc worth pts
Scored(st, pts, t) ==
    [hits        |-> st.hits + 1,
     combo       |-> ComboAfterHit(st.combo, st.lastHitTime, t),
     lastHitTime |-> t,
     maxCombo    |-> Max(ComboAfterHit(st.combo, st.lastHitTime, t), st.maxCombo),
     score       |-> ScoreAfterHit(st.score, pts,
                                   ComboAfterHit(st.combo, st.lastHitTime, t))]

HitTarget(id) ==
    /\ LET st == Scored([hits |-> hits, combo |-> combo, lastHitTime |-> lastHitTime,
                          maxCombo |-> maxCombo, score |-> score],
                         PointsOf(discs, id), now)
       IN  /\ hits' = st.hits
           /\ combo' = st.combo
           /\ lastHitTime' = st.lastHitTime
           /\ maxCombo' = st.maxCombo
           /\ score' = st.score
    /\ discs' = RemoveDisc(discs, id)
    /\ respawnTimers' = Append(respawnTimers, now + respawnDelay)
    /\ lockedTarget' = LockAfterHit(id)
    /\ staleLock' = FALSE
    /\ UNCHANGED <<nextId, wasLocked>>

(***************************************************************************)
(* Game.updateAccuracy                                                     *)
(***************************************************************************)
\* JavaScript numbers are IEEE 754 doubles: a significand of MantBits bits,
\* kept here as a sequence of bits (most significant first, m[1] = 1), and
\* an exponent e, for the value 0.m * 2^e.  Results are rounded to nearest,
\* ties to even.
MantBits == 53

\* value of a short bit sequence
RECURSIVE BitsValue(_)
BitsValue(b) ==
    IF b = <<>> THEN 0 ELSE 2 * BitsValue(SubSeq(b, 1, Len(b) - 1)) + b[Len(b)]

\* a bit sequence given as a function, as a tuple
Bits(f) == SubSeq(f, 1, Len(f))

\* b + 1 on a bit sequence of fixed length; all ones wrap to all zeros
Increment(b) ==
    LET zeros == {i \in 1..Len(b) : b[i] = 0}
        last  == CHOOSE j \in zeros : \A k \in zeros : k <= j
    IN  IF zeros = {} THEN Bits([i \in 1..Len(b) |-> 0])
        ELSE Bits([i \in 1..Len(b) |->
                      IF i < last THEN b[i] ELSE IF i = last THEN 1 ELSE 0])

\* x + y on bit sequences of one length, the carry out of the top dropped:
\* the carry into position i comes from the nearest lower position where
\* the two bits agree
AddBits(x, y) ==
    LET n == Len(x)
        carry(i) ==
            LET agree == {j \in (i + 1)..n : x[j] = y[j]}
            IN  IF agree = {} THEN 0
                ELSE x[CHOOSE j \in agree : \A k \in agree : j <= k]
    IN  Bits([i \in 1..n |-> (x[i] + y[i] + carry(i)) % 2])

\* b * 2^k on a bit sequence widened to n bits
ShiftTo(b, k, n) ==
    Bits([i \in 1..n |-> IF i + k > n \/ i + k <= n - Len(b) THEN 0
                         ELSE b[i + k - (n - Len(b))]])

\* b without its leading zeros
Normalized(b) ==
    LET first == CHOOSE i \in 1..Len(b) : b[i] = 1 /\ \A k \in 1..(i - 1) : b[k] = 0
    IN  SubSeq(b, first, Len(b))

\* the double nearest to 0.b * 2^e, for b[1] = 1 and Len(b) > MantBits;
\* sticky: the digits beyond b are not all zero
RoundNearestEven(b, e, sticky) ==
    LET m  == SubSeq(b, 1, MantBits)
        g  == b[MantBits + 1]
        st == sticky \/ \E i \in (MantBits + 2)..Len(b) : b[i] = 1
        up == g = 1 /\ (st \/ m[MantBits] = 1)
        mi == Increment(m)
    IN  IF ~up THEN [m |-> m, e |-> e]
        ELSE IF mi[1] = 0
             THEN [m |-> Bits([i \in 1..MantBits |-> IF i = 1 THEN 1 ELSE 0]),
                   e |-> e + 1]
             ELSE [m |-> mi, e |-> e]

\* 2^j mod d, by repeated squaring
RECURSIVE PowMod(_, _)
PowMod(j, d) ==
    IF j = 0 THEN 1 % d
    ELSE LET half == PowMod(j \div 2, d)
         IN  (half * half * (IF j % 2 = 1 THEN 2 ELSE 1)) % d

\* zeros after the binary point before the first 1 of r / d, for 0 < r < d
RECURSIVE LeadingZeros(_, _)
LeadingZeros(r, d) == IF 2 * r >= d THEN 0 ELSE 1 + LeadingZeros(2 * r, d)

\* the double a / b, for integers 0 < a < b: digit i of the quotient is
\* taken from the remainder of a * 2^(i-1)
FloatDiv(a, b) ==
    LET z      == LeadingZeros(a, b)
        rem(j) == (a * PowMod(z + j, b)) % b
        digits == Bits([i \in 1..(MantBits + 1) |-> (2 * rem(i - 1)) \div b])
    IN  RoundNearestEven(digits, 0 - z, rem(MantBits + 1) # 0)

\* the double x * 100, for a double x > 0: 100 = 2^6 + 2^5 + 2^2
FloatTimes100(x) ==
    LET n == MantBits + 7
        p == AddBits(AddBits(ShiftTo(x.m, 6, n), ShiftTo(x.m, 5, n)), ShiftTo(x.m, 2, n))
        q == Normalized(p)
    IN  RoundNearestEven(q, x.e + (Len(q) - MantBits), FALSE)

\* Math.round of a double x > 0 below 2^MantBits: floor(x + 0.5)
MathRound(x) ==
    IF x.e < 0 THEN 0
    ELSE BitsValue(SubSeq(x.m, 1, x.e)) + x.m[x.e + 1]

\* Math.round((hits / shots) * 100), for 0 <= h <= s, s > 0
RoundedPercent(h, s) ==
    IF h = 0 THEN 0
    ELSE IF h = s THEN 100
    ELSE MathRound(FloatTimes100(FloatDiv(h, s)))

\* the text updateAccuracy leaves in #accuracy; old is the text before
\* RoundedPercent for the shot counts of a session, computed once:
\* AccuracyTexts[s][h + 1] = RoundedPercent(h, s)
AccuracyTexts ==
    LET n == MaxMisses + MaxStreak + maxCount
        row(s) == SubSeq([k \in 1..(s + 1) |-> RoundedPercent(k - 1, s)], 1, s + 1)
    IN  SubSeq([s \in 1..n |-> row(s)], 1, n)

UpdateAccuracy(h, s, old) ==
    IF s = 0 THEN old
    ELSE IF s <= Len(AccuracyTexts) THEN AccuracyTexts[s][h + 1]
    ELSE RoundedPercent(h, s)

(***************************************************************************)
(* HandTracker.processResults                                              *)
(***************************************************************************)
\* x + y for doubles x, y >= 0
FloatAdd(x, y) ==
    IF x.m = <<>> THEN y
    ELSE IF y.m = <<>> THEN x
    ELSE LET hi == IF x.e >= y.e THEN x ELSE y
             lo == IF x.e >= y.e THEN y ELSE x
             d  == hi.e - lo.e
             n  == MantBits + d + 1
             q  == Normalized(AddBits(ShiftTo(hi.m, d, n), ShiftTo(lo.m, 0, n)))
             e  == lo.e + (Len(q) - MantBits)
         IN  IF Len(q) = MantBits THEN [m |-> q, e |-> e]
             ELSE RoundNearestEven(q, e, FALSE)

\* x <= y for doubles x, y >= 0
FloatLeq(x, y) ==
    IF x.m = <<>> THEN TRUE
    ELSE IF y.m = <<>> THEN FALSE
    ELSE IF x.e # y.e THEN x.e < y.e
    ELSE \A i \in 1..MantBits :
            x.m[i] > y.m[i] => \E k \in 1..(i - 1) : x.m[k] < y.m[k]

\* the squared length of distance(p1, p2)
DistanceSquared(p1, p2) ==
    (p1.x - p2.x) * (p1.x - p2.x) + (p1.y - p2.y) * (p1.y - p2.y)
        + (p1.z - p2.z) * (p1.z - p2.z)

\* the quotient of two distances, kept by the squares of the two: a double
\* that is NaN for 0 / 0 and Infinity for a / 0 with a > 0
Quotient(a2, b2) == [num2 |-> a2, den2 |-> b2]

\* q > n / d; false for NaN, true for Infinity
Exceeds(q, n, d) ==
    IF q.den2 = 0 THEN q.num2 # 0 ELSE q.num2 * d * d > n * n * q.den2

\* q < n / d; false for NaN and for Infinity
Below(q, n, d) == q.den2 # 0 /\ q.num2 * d * d < n * n * q.den2

\* indexCurl > 0.8 && indexTip.y < indexPip.y
IndexExtended(lm) ==
    /\ Exceeds(Quotient(DistanceSquared(lm.indexTip, lm.indexPip),
                        DistanceSquared(lm.indexPip, lm.indexMcp)), 4, 5)
    /\ lm.indexTip.y < lm.indexPip.y

\* curl < 1.3 || tip.y > pip.y, for the middle, the ring and the little finger
Folded(tip, pip, wrist) ==
    \/ Below(Quotient(DistanceSquared(tip, wrist), DistanceSquared(pip, wrist)), 13, 10)
    \/ tip.y > pip.y

MiddleFolded(lm) == Folded(lm.middleTip, lm.middlePip, lm.wrist)
RingFolded(lm)   == Folded(lm.ringTip, lm.ringPip, lm.wrist)
PinkyFolded(lm)  == Folded(lm.pinkyTip, lm.pinkyPip, lm.wrist)

\* thumbTip.y < thumbIp.y - 0.02
ThumbUp(lm) == lm.thumbTip.y < lm.thumbIp.y - Grid \div 50

OthersFolded(mf, rf, pf) ==
    (IF mf THEN 1 ELSE 0) + (IF rf THEN 1 ELSE 0) + (IF pf THEN 1 ELSE 0)

\* the gun pose with one folded finger enough
IsGunPoseOneFolded(ie, mf, rf, pf) == ie /\ OthersFolded(mf, rf, pf) >= 1

IsGunPose(ie, mf, rf, pf) == ie /\ OthersFolded(mf, rf, pf) >= 2

\* the doubles 0.4 and 0.2
IndexWeight == FloatDiv(2, 5)
OtherWeight == FloatDiv(1, 5)

\* the confidence with the index finger weighing as much as any other
ConfidenceEvenWeights(ie, mf, rf, pf) ==
    LET c1 == IF ie THEN FloatAdd(FloatZero, OtherWeight) ELSE FloatZero
        c2 == IF mf THEN FloatAdd(c1, OtherWeight) ELSE c1
        c3 == IF rf THEN FloatAdd(c2, OtherWeight) ELSE c2
    IN  IF pf THEN FloatAdd(c3, OtherWeight) ELSE c3

Confidence(ie, mf, rf, pf) ==
    LET c1 == IF ie THEN FloatAdd(FloatZero, IndexWeight) ELSE FloatZero
        c2 == IF mf THEN FloatAdd(c1, OtherWeight) ELSE c1
        c3 == IF rf THEN FloatAdd(c2, OtherWeight) ELSE c2
    IN  IF pf THEN FloatAdd(c3, OtherWeight) ELSE c3

\* Confidence for the sixteen verdicts, computed once
Confidences ==
    [ie \in BOOLEAN |-> [mf \in BOOLEAN |-> [rf \in BOOLEAN |-> [pf \in BOOLEAN |->
        Confidence(ie, mf, rf, pf)]]]]

\* smoothingFactor = 0.4, as the fraction smoothingNum / smoothingDen
smoothingNum == 2
smoothingDen == 5

\* smoothedPosition += (raw - smoothedPosition) * smoothingFactor, the raw
\* point mirrored: rawX = 1 - indexTip.x.  The arithmetic is exact, the
\* denominator growing with every step.
Smoothed(pos, tip) ==
    [x   |-> (smoothingDen - smoothingNum) * pos.x + smoothingNum * (Grid - tip.x) * pos.den,
     y   |-> (smoothingDen - smoothingNum) * pos.y + smoothingNum * tip.y * pos.den,
     den |-> smoothingDen * pos.den]

\* drawSkeleton: with a drawing context and the gun pose published, the aim
\* line is drawn along the direction from indexMcp to indexTip on screen; when
\* the two coincide the direction is 0 / 0 and createLinearGradient rejects
\* the non-finite end point with a TypeError
DrawSkeletonThrows(lm) ==
    /\ skeletonCtx
    /\ gestureState.isGunPose
    /\ lm.indexTip.x = lm.indexMcp.x /\ lm.indexTip.y = lm.indexMcp.y

\* results.multiHandLandmarks is missing or empty
NoHand == <<>>

\* the detection results processed in one run
MaxResults == 2

\* a no-hand branch that also lowers the thumb
WithoutHandThumbDown(gs) ==
    [gs EXCEPT !.isGunPose = FALSE, !.isThumbUp = FALSE, !.confidence = FloatZero,
               !.landmarks = Null]

\* the no-hand branch: isGunPose = false, confidence = 0, landmarks = null
WithoutHand(gs) ==
    [gs EXCEPT !.isGunPose = FALSE, !.confidence = FloatZero, !.landmarks = Null]

\* processResults(results) on the tracker's own fields; thrown tells whether
\* the onGestureUpdate callback ends with an exception
Processed(results, thrown) ==
    /\ resultCount' = resultCount + 1
    /\ IF Len(results) = 0
       THEN /\ gestureState' = WithoutHand(gestureState)
            /\ signals' = <<"onTrackingLost">>
            /\ UNCHANGED smoothedPosition
       ELSE IF DrawSkeletonThrows(results[1])
       THEN /\ gestureState' = [gestureState EXCEPT !.landmarks = <<results[1]>>]
            /\ signals' = <<>>
            /\ UNCHANGED smoothedPosition
       ELSE LET landmarks == results[1]
                ie == IndexExtended(landmarks)
                mf == MiddleFolded(landmarks)
                rf == RingFolded(landmarks)
                pf == PinkyFolded(landmarks)
            IN  /\ smoothedPosition' = Smoothed(smoothedPosition, landmarks.indexTip)
                /\ gestureState' = [isGunPose  |-> IsGunPose(ie, mf, rf, pf),
                                    isThumbUp  |-> ThumbUp(landmarks),
                                    fingerTip  |-> smoothedPosition',
                                    confidence |-> Confidences[ie][mf][rf][pf],
                                    landmarks  |-> <<landmarks>>]
                /\ signals' = IF thrown THEN <<"onGestureUpdate">>
                              ELSE <<"onGestureUpdate", "onLandmarksUpdate">>

ProcessResults(results) ==
    /\ resultCount < MaxResults
    /\ Processed(results, FALSE)
    /\ UNCHANGED <<skeletonCtx, detectVars, scoreVars, aimVars, gestureVars, isShooting,
                   lockVars, discVars, timerVars, loopVars, initVars, now, histVars,
                   tickVars>>

(***************************************************************************)
(* Game.shoot                                                              *)
(***************************************************************************)
\* the combo from which a hit is a perfect hit
perfectCombo == 5

\* a call of the audio manager; level is the argument of playCombo, 0 otherwise
Call(event, level) == [event |-> event, level |-> level]

\* notifications whose perfect tier starts above perfectCombo
NotifiedPerfectLater(locked, c) ==
    <<Call("shoot", 0)>> \o
    (IF locked
     THEN <<Call(IF c > perfectCombo THEN "perfect-hit" ELSE "hit", 0)>> \o
          (IF c > 1 THEN <<Call("combo", c)>> ELSE <<>>)
     ELSE <<Call("miss", 0)>>)

\* the audio manager calls of one shoot(): playShoot, then playPerfectHit or
\* playHit and playCombo(combo) in hitTarget(), or playMiss in miss(); c is
\* the combo after the update
Notified(locked, c) ==
    <<Call("shoot", 0)>> \o
    (IF locked
     THEN <<Call(IF c >= perfectCombo THEN "perfect-hit" ELSE "hit", 0)>> \o
          (IF c > 1 THEN <<Call("combo", c)>> ELSE <<>>)
     ELSE <<Call("miss", 0)>>)

\* the body of shoot() past the cooldown guard
Fire ==
    /\ isShooting' = TRUE
    /\ shots' = shots + 1
    /\ firedAt' = now
    /\ IF lockedTarget # NoDisc THEN HitTarget(lockedTarget) ELSE Miss
    /\ notified' = Notified(lockedTarget # NoDisc, combo')
    /\ accuracyDisplay' = UpdateAccuracy(hits', shots', accuracyDisplay)
    /\ cooldownTimers' = Append(cooldownTimers, now + shootCooldown)
    /\ UNCHANGED spawnTimers

\* a shoot() that does not count the shot
ShootUncounted ==
    IF isShooting
    THEN UNCHANGED <<scoreVars, isShooting, lockVars, discVars, timerVars, staleLock,
                     firedAt, notified>>
    ELSE /\ isShooting' = TRUE
         /\ shots' = shots
         /\ firedAt' = now
         /\ IF lockedTarget # NoDisc THEN HitTarget(lockedTarget) ELSE Miss
         /\ notified' = Notified(lockedTarget # NoDisc, combo')
         /\ accuracyDisplay' = UpdateAccuracy(hits', shots', accuracyDisplay)
         /\ cooldownTimers' = Append(cooldownTimers, now + shootCooldown)
         /\ UNCHANGED spawnTimers

\* a shoot() without the isShooting check
ShootUnguarded == Fire

Shoot ==
    IF isShooting
    THEN UNCHANGED <<scoreVars, isShooting, lockVars, discVars, timerVars, staleLock,
                     firedAt, notified>>
    ELSE Fire

(***************************************************************************)
(* Game.updateGesture, called by the tracker's onGestureUpdate             *)
(***************************************************************************)
\* an updateGesture that moves the aim point whatever the gesture
GestureUpdateAimsAlways(gun, thumbUp, tip) ==
    /\ isGunPose' = gun
    /\ IF gun
       THEN /\ targetX' = (tip.x * innerWidth) \div 4
            /\ targetY' = (tip.y * innerHeight) \div 4
            /\ IF ~thumbUp /\ wasThumbUp /\ ~isShooting
               THEN Shoot
               ELSE UNCHANGED <<scoreVars, isShooting, lockVars, discVars,
                                timerVars, staleLock, firedAt, notified>>
            /\ wasThumbUp' = thumbUp
       ELSE /\ wasThumbUp' = TRUE
            /\ targetX' = (tip.x * innerWidth) \div 4
            /\ targetY' = (tip.y * innerHeight) \div 4
            /\ UNCHANGED <<scoreVars, isShooting, lockVars, discVars,
                           timerVars, staleLock, firedAt, notified>>
    /\ sinceFire' = IF thumbUp THEN "up"
                    ELSE IF shots' # shots THEN "down" ELSE sinceFire
    /\ lostSince' = IF gun THEN FALSE ELSE lostSince
    /\ consumed' = IF thumbUp THEN FALSE
                   ELSE IF gun /\ wasThumbUp /\ isShooting THEN TRUE ELSE consumed
    /\ UNCHANGED <<loopVars, initVars, tickVars>>

\* updateGesture(gestureState) on the game's fields
GestureUpdate(gun, thumbUp, tip) ==
    /\ isGunPose' = gun
    /\ IF gun
       THEN /\ targetX' = (tip.x * innerWidth) \div 4
            /\ targetY' = (tip.y * innerHeight) \div 4
            /\ IF ~thumbUp /\ wasThumbUp /\ ~isShooting
               THEN Shoot
               ELSE UNCHANGED <<scoreVars, isShooting, lockVars, discVars,
                                timerVars, staleLock, firedAt, notified>>
            /\ wasThumbUp' = thumbUp
       ELSE /\ wasThumbUp' = TRUE
            /\ UNCHANGED <<aimVars, scoreVars, isShooting, lockVars, discVars,
                           timerVars, staleLock, firedAt, notified>>
    /\ sinceFire' = IF thumbUp THEN "up"
                    ELSE IF shots' # shots THEN "down" ELSE sinceFire
    /\ lostSince' = IF gun THEN FALSE ELSE lostSince
    /\ consumed' = IF thumbUp THEN FALSE
                   ELSE IF gun /\ wasThumbUp /\ isShooting THEN TRUE ELSE consumed
    /\ UNCHANGED <<loopVars, initVars, tickVars>>

UpdateGesture(gun, thumbUp, tip) ==
    /\ UNCHANGED trackerVars
    /\ phase \in {"tracking", "started"}
    /\ GestureUpdate(gun, thumbUp, tip)
    /\ UNCHANGED now

(***************************************************************************)
(* Game.onGestureLost, called by the tracker's onTrackingLost              *)
(***************************************************************************)
\* onGestureLost() on the game's fields
GestureLost ==
    /\ isGunPose' = FALSE
    /\ lostSince' = TRUE
    /\ staleLock' = (lockedTarget # NoDisc)
    /\ consumed' = FALSE
    /\ UNCHANGED <<scoreVars, aimVars, wasThumbUp, isShooting, lockVars, discVars,
                   timerVars, loopVars, initVars, fireHist, tickVars>>

OnGestureLost ==
    /\ UNCHANGED trackerVars
    /\ phase \in {"tracking", "started"}
    /\ GestureLost
    /\ UNCHANGED now

(***************************************************************************)
(* keydown ' ': manual fire                                                *)
(***************************************************************************)
ManualFire ==
    /\ UNCHANGED trackerVars
    /\ isGunPose
    /\ Shoot
    /\ UNCHANGED <<aimVars, gestureVars, loopVars, initVars, now, sinceFire, lostSince,
                   consumed, tickVars>>

(***************************************************************************)
(* the shoot() cooldown callback                                           *)
(***************************************************************************)
\* a cooldown callback that runs before its delay has passed
ExpiryAtOnce ==
    /\ UNCHANGED trackerVars
    /\ cooldownTimers # <<>>
    /\ cooldownTimers' = Tail(cooldownTimers)
    /\ isShooting' = FALSE
    /\ UNCHANGED <<scoreVars, aimVars, gestureVars, lockVars, discVars,
                   respawnTimers, spawnTimers, loopVars, initVars, now, histVars, tickVars>>

CooldownExpiry ==
    /\ UNCHANGED trackerVars
    /\ cooldownTimers # <<>>
    /\ Head(cooldownTimers) <= now
    /\ cooldownTimers' = Tail(cooldownTimers)
    /\ isShooting' = FALSE
    /\ UNCHANGED <<scoreVars, aimVars, gestureVars, lockVars, discVars,
                   respawnTimers, spawnTimers, loopVars, initVars, now, histVars, tickVars>>

(***************************************************************************)
(* the hitTarget() respawn callback                                        *)
(***************************************************************************)
RespawnTimer ==
    /\ UNCHANGED trackerVars
    /\ respawnTimers # <<>>
    /\ Head(respawnTimers) <= now
    /\ respawnTimers' = Tail(respawnTimers)
    /\ IF Len(discs) < maxCount
       THEN /\ discs' = Append(discs, NewDisc(nextId, now))
            /\ nextId' = nextId + 1
       ELSE UNCHANGED discVars
    /\ UNCHANGED <<scoreVars, aimVars, gestureVars, isShooting, lockVars,
                   cooldownTimers, spawnTimers, loopVars, initVars, now, histVars, tickVars>>

(***************************************************************************)
(* the start() spawn callbacks                                             *)
(***************************************************************************)
SpawnTimer ==
    /\ UNCHANGED trackerVars
    /\ spawnTimers # <<>>
    /\ Head(spawnTimers) <= now
    /\ spawnTimers' = Tail(spawnTimers)
    /\ discs' = Append(discs, NewDisc(nextId, now))
    /\ nextId' = nextId + 1
    /\ UNCHANGED <<scoreVars, aimVars, gestureVars, isShooting, lockVars,
                   cooldownTimers, respawnTimers, loopVars, initVars, now, histVars, tickVars>>

(***************************************************************************)
(* Game.update with the projections the renderer returns this frame        *)
(***************************************************************************)
\* the disc loop: a disc older than lifeTime is repositioned
Relocated(ds, t) ==
    [i \in 1..Len(ds) |->
        IF t - ds[i].createdAt > lifeTime THEN [ds[i] EXCEPT !.createdAt = t] ELSE ds[i]]

\* a top-up that only fills an empty registry
ToppedUpWhenEmpty(ds, id, t) ==
    IF Len(ds) = 0 THEN CreateDiscs(ds, id, maxCount, t) ELSE ds

\* the top-up loop
ToppedUp(ds, id, t) ==
    IF Len(ds) < maxCount THEN CreateDiscs(ds, id, maxCount - Len(ds), t) ELSE ds

\* an update() that never records the lock in wasLocked
WasLockedForgotten(locked) == FALSE

\* wasLocked after the acquisition step
WasLockedAfter(locked) == locked

\* audioManager.playLock() is called by update() with these projections
PlaysLock(proj) ==
    NearestDisc(proj, targetX, targetY) # 0 /\ isGunPose /\ ~wasLocked

\* the acquisition step of update(): the nearest-disc loop and the lock branch
Acquire(proj) ==
    \E nearest \in {NearestDisc(proj, targetX, targetY)} :
    LET locked  == nearest # 0 /\ isGunPose
    IN  /\ IF locked
           THEN /\ lockedTarget' = discs[nearest].id
                /\ finalTarget' = Pulled(proj[nearest], targetX, targetY)
           ELSE /\ lockedTarget' = NoDisc
                /\ finalTarget' = Unpulled(targetX, targetY)
        /\ wasLocked' = WasLockedAfter(locked)
        /\ tickLocked' = locked
        /\ staleLock' = FALSE

\* the disc loop and the top-up loop of update()
DiscLoop ==
    /\ discs' = ToppedUp(Relocated(discs, now), nextId, now)
    /\ nextId' = nextId + (Len(discs') - Len(discs))

Update(proj) ==
    /\ Acquire(proj)
    /\ ranSincePause' = TRUE
    /\ frameFault' = FALSE /\ UNCHANGED faultParity
    /\ DiscLoop

(***************************************************************************)
(* Game.gameLoop                                                           *)
(***************************************************************************)
\* a gameLoop() that runs whether or not the game is paused
NeverStopped(r) == FALSE

\* if (!this.state.running) return
Stopped(r) == ~r

\* the body of gameLoop() when called directly (start, resume)
GameLoop(proj) ==
    IF Stopped(running')
    THEN UNCHANGED <<rafPending, lockVars, discVars, staleLock, tickVars>>
    ELSE /\ rafPending' = rafPending + 1
         /\ Update(proj)

\* a requestAnimationFrame callback runs gameLoop()
Frame(proj) ==
    /\ UNCHANGED trackerVars
    /\ rafPending > 0
    /\ IF Stopped(running)
       THEN /\ rafPending' = rafPending - 1
            /\ UNCHANGED <<lockVars, discVars, staleLock, tickVars>>
       ELSE /\ UNCHANGED rafPending
            /\ Update(proj)
    /\ UNCHANGED <<scoreVars, aimVars, gestureVars, isShooting, timerVars,
                   running, initVars, now, fireHist, lostSince, consumed>>

\* a gameLoop() that asks for the next frame after render()
PendingIfScheduledLast(n) == n - 1

\* the pending callbacks after a callback whose update() or render() threw:
\* the callback is gone, its successor was requested before the try block
PendingAfterFault(n) == n

\* the places where a tick can throw: in the acquisition step before any
\* assignment, in the disc loop before any assignment, in render()
FaultStages == {"aim", "discs", "render"}

\* a requestAnimationFrame callback whose update() or render() throws
FaultyFrame(proj, stage) ==
    /\ UNCHANGED trackerVars
    /\ rafPending > 0
    /\ ~Stopped(running)
    /\ rafPending' = PendingAfterFault(rafPending)
    /\ CASE stage = "aim" ->
              UNCHANGED <<lockVars, discVars, staleLock, finalTarget, tickLocked>>
         [] stage = "discs" -> Acquire(proj) /\ UNCHANGED discVars
         [] stage = "render" -> Acquire(proj) /\ DiscLoop
    /\ ranSincePause' = TRUE
    /\ frameFault' = TRUE /\ faultParity' = ~faultParity
    /\ UNCHANGED <<scoreVars, aimVars, gestureVars, isShooting, timerVars,
                   running, initVars, now, fireHist, lostSince, consumed>>

(***************************************************************************)
(* Game.pause / Game.resume (visibilitychange)                             *)
(***************************************************************************)
Pause ==
    /\ UNCHANGED trackerVars
    /\ running' = FALSE
    /\ ranSincePause' = FALSE
    /\ UNCHANGED <<scoreVars, aimVars, gestureVars, isShooting, lockVars, discVars,
                   timerVars, rafPending, initVars, now, histVars, finalTarget,
                   tickLocked, faultVars>>

Resume(proj) ==
    /\ UNCHANGED trackerVars
    /\ rafPending < MaxRaf
    /\ IF ~running
       THEN /\ running' = TRUE
            /\ GameLoop(proj)
       ELSE UNCHANGED <<running, rafPending, lockVars, discVars, staleLock, tickVars>>
    /\ UNCHANGED <<scoreVars, aimVars, gestureVars, isShooting, timerVars,
                   initVars, now, fireHist, lostSince, consumed>>

(***************************************************************************)
(* init(): the tracker comes up or fails; game.start() after the delay     *)
(***************************************************************************)
TrackerReady ==
    /\ UNCHANGED trackerVars
    /\ phase = "init"
    /\ phase' = "tracking"
    /\ initTimer' = now + loadDelay
    /\ UNCHANGED <<scoreVars, aimVars, gestureVars, isShooting, lockVars, discVars,
                   timerVars, loopVars, now, histVars, tickVars>>

InitFail ==
    /\ UNCHANGED trackerVars
    /\ phase = "init"
    /\ phase' = "failed"
    /\ UNCHANGED <<scoreVars, aimVars, gestureVars, isShooting, lockVars, discVars,
                   timerVars, loopVars, initTimer, now, histVars, tickVars>>

\* Game.start
Start(proj) ==
    /\ UNCHANGED trackerVars
    /\ phase = "tracking"
    /\ initTimer <= now
    /\ rafPending < MaxRaf
    /\ phase' = "started"
    /\ running' = TRUE
    /\ spawnTimers' = [i \in 1..maxCount |-> now + (i - 1) * spawnStagger]
    /\ GameLoop(proj)
    /\ UNCHANGED <<scoreVars, aimVars, gestureVars, isShooting, cooldownTimers,
                   respawnTimers, initTimer, now, fireHist, lostSince, consumed>>

(***************************************************************************)
(* the clock                                                               *)
(***************************************************************************)
Advance(d) ==
    /\ UNCHANGED trackerVars
    /\ now + d <= Horizon
    /\ now' = now + d
    /\ UNCHANGED <<scoreVars, aimVars, gestureVars, isShooting, lockVars, discVars,
                   timerVars, loopVars, initVars, histVars, tickVars>>

Next ==
    \/ \E gun \in BOOLEAN, thumbUp \in BOOLEAN, tip \in FingerTips :
          UpdateGesture(gun, thumbUp, tip)
    \/ OnGestureLost
    \/ ManualFire
    \/ CooldownExpiry
    \/ RespawnTimer
    \/ SpawnTimer
    \/ \E proj \in Projections(Len(discs)) : Frame(proj)
    \/ Pause
    \/ \E proj \in Projections(Len(discs)) : Resume(proj)
    \/ TrackerReady
    \/ InitFail
    \/ \E proj \in Projections(Len(discs)) : Start(proj)
    \/ Advance(Quantum)

Spec == Init /\ [][Next]_vars

(***************************************************************************)
(* The start of a game: from page load until the targets of start() are    *)
(* all on screen, the clock advancing by the stagger of the spawn timers.  *)
(***************************************************************************)
\* the clock advances at most MaxWaits times by spawnStagger
MaxWaits == 6

SpawnHorizon == StartNow + MaxWaits * spawnStagger

Wait(d) ==
    /\ UNCHANGED trackerVars
    /\ now + d <= SpawnHorizon
    /\ now' = now + d
    /\ UNCHANGED <<scoreVars, aimVars, gestureVars, isShooting, lockVars, discVars,
                   timerVars, loopVars, initVars, histVars, tickVars>>

\* the player fires once: no detection result and no key follows the shot
NextSpawn ==
    \/ /\ shots = 0
       /\ \E gun \in BOOLEAN, thumbUp \in BOOLEAN, tip \in FingerTips :
              UpdateGesture(gun, thumbUp, tip)
    \/ shots = 0 /\ ManualFire
    \/ CooldownExpiry
    \/ RespawnTimer
    \/ SpawnTimer
    \/ \E proj \in Projections(Len(discs)) : Frame(proj)
    \/ TrackerReady
    \/ \E proj \in Projections(Len(discs)) : Start(proj)
    \/ Wait(spawnStagger)

SpecSpawn == Init /\ [][NextSpawn]_vars

(***************************************************************************)
(* A session in progress.  The session started at time s0 and opened with  *)
(* m misses, 250 ms apart; its first hit came WarmUp after the start and   *)
(* the hits followed each other StreakGap apart, each on the first target  *)
(* of the registry; the last of the c hits was g before now, no target has *)
(* been in range since, and the last detection cycle showed the gun pose.  *)
(***************************************************************************)

StreakGap == Quantum \div 2
WarmUp    == 9 * StreakGap

\* new Game(): the scoring fields
FreshScoring == [hits |-> 0, combo |-> 1, lastHitTime |-> 0, maxCombo |-> 1, score |-> 0]

\* the scoring fields after hits j..c of the streak, the first hit at t1
RECURSIVE AfterHits(_, _, _, _)
AfterHits(st, j, c, t1) ==
    IF j > c THEN st
    ELSE AfterHits(Scored(st, discPoints, t1 + (j - 1) * StreakGap), j + 1, c, t1)

\* when the disc with identity id was created: the first maxCount by the
\* first update(), the next maxCount by the timers of start(), every later
\* one by the frame after the hit that left the registry short
CreatedAt(id, s0) ==
    IF id <= maxCount THEN s0
    ELSE IF id <= 2 * maxCount THEN s0 + (id - maxCount - 1) * spawnStagger
    ELSE s0 + WarmUp + (id - maxCount - 1) * StreakGap

\* the registry after c hits
StreakDiscs(c, s0) ==
    [i \in 1..(Max(2 * maxCount, c + maxCount) - c) |->
        NewDisc(c + i, CreatedAt(c + i, s0))]

\* the game's fields in such a session
GameInSession(m, c, g) ==
    LET s0 == now - g - WarmUp - (Max(c, 1) - 1) * StreakGap
        st == AfterHits(FreshScoring, 1, c, s0 + WarmUp)
    IN  /\ now = StartNow
        /\ hits = st.hits /\ combo = st.combo /\ maxCombo = st.maxCombo
        /\ score = st.score /\ lastHitTime = st.lastHitTime
        /\ shots = m + c
        /\ accuracyDisplay = UpdateAccuracy(c, m + c, Unwritten)
        /\ targetX = innerWidth \div 4 /\ targetY = innerHeight \div 2
        /\ isGunPose = TRUE /\ wasThumbUp = (m + c = 0) /\ isShooting = FALSE
        /\ lockedTarget = NoDisc /\ wasLocked = FALSE /\ running = TRUE
        /\ discs = StreakDiscs(c, s0) /\ nextId = Max(2 * maxCount, c + maxCount) + 1
        /\ cooldownTimers = <<>> /\ respawnTimers = <<>> /\ spawnTimers = <<>>
        /\ rafPending = 1
        /\ phase = "started" /\ initTimer = s0
        /\ sinceFire = IF m + c = 0 THEN "up" ELSE "down"
        /\ notified = IF c > 0 THEN Notified(TRUE, st.combo)
                      ELSE IF m > 0 THEN Notified(FALSE, 1)
                      ELSE <<>>
        /\ firedAt = IF c > 0 THEN now - g
                     ELSE IF m > 0 THEN s0 + (m - 1) * (StreakGap \div 2)
                     ELSE Never
        /\ lostSince = FALSE /\ staleLock = FALSE /\ consumed = FALSE
        /\ finalTarget = Unpulled(targetX, targetY) /\ tickLocked = FALSE
        /\ ranSincePause = TRUE
        /\ frameFault = FALSE /\ faultParity = FALSE

InSession(m, c, g) ==
    /\ GameInSession(m, c, g)
    /\ NewHandTracker /\ skeletonCtx = FALSE

InitStreak ==
    \E m \in {0, MaxMisses}, c \in 0..MaxStreak, g \in {StreakGap, Quantum} :
        /\ m = 0 => c = 0
        \* past the cap, streaks differ in the counters only: the longest stands
        \* for them
        /\ c <= comboCap + 1 \/ c = MaxStreak
        /\ InSession(m, c, g)

\* the steps of a visible page: the session runs on without being paused
NextStreak ==
    \/ \E gun \in BOOLEAN, thumbUp \in BOOLEAN, tip \in FingerTips :
          UpdateGesture(gun, thumbUp, tip)
    \/ OnGestureLost
    \/ ManualFire
    \/ CooldownExpiry
    \/ RespawnTimer
    \/ \E proj \in Projections(Len(discs)) : Frame(proj)
    \/ Advance(Quantum)

SpecStreak == InitStreak /\ [][NextStreak]_vars

(***************************************************************************)
(* Aiming.  A session in progress whose registry has settled at maxCount   *)
(* targets; every frame may project every target on the aim point, 60 px   *)
(* from it in two directions, or on the capture radius.                    *)
(***************************************************************************)
AimPoints == {AtAim, NearPoint, TiePoint, FarPoint}

\* at most two targets of the registry come within reach of the aim point;
\* the earlier one at AtAim or NearPoint, the later one at AtAim or TiePoint
AimPairs(n) ==
    {[i \in 1..n |-> IF i = a THEN p ELSE IF i = b THEN q ELSE FarPoint] :
        a \in 1..n, b \in 1..n, p \in {AtAim, NearPoint},
        q \in {AtAim, TiePoint, FarPoint}}

ProjectionsBySize == [n \in 0..(2 * maxCount) |-> AimPairs(n)]

AimProjections(n) == ProjectionsBySize[n]

InitAim == InSession(MaxMisses, maxCount + 1, StreakGap)

\* the steps of one instant: detection results, the space key and frames
NextAim ==
    \/ \E gun \in BOOLEAN, thumbUp \in BOOLEAN, tip \in FingerTips :
          UpdateGesture(gun, thumbUp, tip)
    \/ OnGestureLost
    \/ ManualFire
    \/ \E proj \in AimProjections(Len(discs)) : Frame(proj)

SpecAim == InitAim /\ [][NextAim]_vars

(***************************************************************************)
(* Steps named by the properties below                                     *)
(***************************************************************************)
\* a detection cycle that reports the gun pose with the thumb down
GunDownUpdate == \E tip \in FingerTips : UpdateGesture(TRUE, FALSE, tip)

\* a fire event produced by updateGesture: the only step that counts a shot
\* and clears wasThumbUp
GestureFire == shots' = shots + 1 /\ wasThumbUp /\ ~wasThumbUp'

(***************************************************************************)
(* Properties of the combo, the score and the accuracy                     *)
(***************************************************************************)
\* C1: in every reachable state combo is an integer from 1 to 10.
C1_ComboRange == combo \in 1..10

\* C1 witness: a hit has just landed on a streak already at the cap.
C1_Witness == combo = 10 /\ hits = comboCap + 2 /\ lastHitTime = StartNow

\* C2: a hit at time now sets combo to min(combo + 1, 10) when
\* now - lastHitTime < 2000 and to 1 otherwise (exactly 2000 ms and the first
\* hit of a session included) and sets lastHitTime to now; a miss sets combo
\* to 1 and leaves lastHitTime alone.
C2_ComboUpdate ==
    [][/\ hits' = hits + 1 =>
              /\ combo' = IF now - lastHitTime < 2000 THEN Min(combo + 1, 10) ELSE 1
              /\ lastHitTime' = now
       /\ (shots' = shots + 1 /\ hits' = hits) =>
              (combo' = 1 /\ lastHitTime' = lastHitTime)]_vars

\* C2 witness: the fourth hit of a streak landed exactly 2000 ms after the
\* third and the combo is back to 1.
C2_Witness ==
    /\ hits = 4 /\ shots = MaxMisses + 4
    /\ lastHitTime = StartNow + Quantum
    /\ combo = 1 /\ maxCombo = 3

\* C3: a hit adds points(target) * combo to the score, combo being the value
\* after the combo update of that hit; no other step changes the score.
C3_ScoreDelta ==
    [][/\ hits' = hits + 1 => score' = score + PointsOf(discs, lockedTarget) * combo'
       /\ hits' = hits => score' = score]_vars

\* C3 witness: combo 3, a hit 1500 ms after the previous one: combo 4 and
\* 400 more points (600 + 400).
C3_Witness ==
    /\ hits = 4 /\ shots = MaxMisses + 4
    /\ lastHitTime = StartNow + Quantum
    /\ combo = 4 /\ score = 10 * discPoints

\* C5: after every fire event the published accuracy is round(100 * hits /
\* shots), halves rounded up; while shots = 0 it is never written.
C5_AccuracyPublished ==
    IF shots = 0 THEN accuracyDisplay = Unwritten
    ELSE accuracyDisplay = (200 * hits + shots) \div (2 * shots)

(***************************************************************************)
(* Properties of the counters                                              *)
(***************************************************************************)
\* C4: hits <= shots in every reachable state, whatever the interleaving of
\* gesture updates, manual fire, cooldown expiries, render ticks and
\* pause/resume.
C4_HitsAtMostShots == hits <= shots

\* C4 witness: a started session in which a miss and a hit have been counted.
C4_Witness == phase = "started" /\ shots = 2 /\ hits = 1 /\ ~running

\* C6: a fire event with no locked target counts a shot, sets combo to 1 and
\* leaves hits, score, maxCombo, lastHitTime and the live targets unchanged.
C6_MissFrame ==
    [][(shots' # shots /\ lockedTarget = NoDisc) =>
          /\ shots' = shots + 1
          /\ combo' = 1
          /\ hits' = hits /\ score' = score /\ maxCombo' = maxCombo
          /\ lastHitTime' = lastHitTime
          /\ discs' = discs]_vars

\* C6 witness: a miss has just been fired (its cooldown is the last one
\* scheduled) after an earlier hit, whose time lastHitTime still holds.
C6_Witness ==
    /\ shots = 2 /\ hits = 1 /\ combo = 1
    /\ isShooting /\ cooldownTimers # <<>>
    /\ cooldownTimers[Len(cooldownTimers)] = now + shootCooldown
    /\ lastHitTime = StartNow /\ now > StartNow
    /\ Len(discs) >= maxCount

(***************************************************************************)
(* A session in which update() or render() may throw, within one instant.  *)
(* The browser runs every pending frame callback.                          *)
(***************************************************************************)
FrameCallback ==
    \E proj \in Projections(Len(discs)) :
        \/ Frame(proj)
        \/ \E stage \in FaultStages : FaultyFrame(proj, stage)

NextFault ==
    \/ \E gun \in BOOLEAN, thumbUp \in BOOLEAN, tip \in FingerTips :
          UpdateGesture(gun, thumbUp, tip)
    \/ ManualFire
    \/ \E proj \in Projections(Len(discs)) : Frame(proj)
    \/ \E proj \in Projections(Len(discs)), stage \in FaultStages :
          FaultyFrame(proj, stage)
    \/ Pause
    \/ \E proj \in Projections(Len(discs)) : Resume(proj)

SpecFault == InitAim /\ [][NextFault]_vars /\ WF_vars(FrameCallback)

(***************************************************************************)
(* Placement: createDisc, isPositionOccupied and repositionDisc on the     *)
(* full entries of the registry.  World lengths are in tenths of a world   *)
(* unit, Math.random() is drawn in tenths.                                 *)
(***************************************************************************)
\* the registry holds at most MaxPlaced targets
MaxPlaced == 3

maxAttempts == 20
colorCount  == 5
worldUnit   == 1250
RandomSteps == 10

minX == 0 - 4 * worldUnit
maxX == 4 * worldUnit
minY == 0 - (5 * worldUnit) \div 2
maxY == (5 * worldUnit) \div 2
minDistance == (3 * worldUnit) \div 2

\* pairs of values of Math.random(), for posX and posY
Cells == {<<0, 0>>, <<1, 1>>, <<5, 5>>, <<9, 9>>}

\* the draws of one placement: n times a, then b
AttemptCounts == {0, 1, maxAttempts - 1, maxAttempts}

DrawSeqs ==
    {[k \in 1..maxAttempts |-> IF k <= n THEN a ELSE b] :
        a \in Cells, b \in Cells, n \in AttemptCounts}

\* Math.floor(Math.random() * colors.length): the last colour, the targets
\* of InitPlace having the first
Colors == {colorCount - 1}
\* the draws for floatPhase and for the drift angle
Turns == {0, 1}

PosX(draw) == minX + (draw[1] * (maxX - minX)) \div RandomSteps

PosY(draw) == minY + (draw[2] * (maxY - minY)) \div RandomSteps

IsPositionOccupied(ds, x, y) ==
    \E i \in 1..Len(ds) :
        (ds[i].position.x - x) * (ds[i].position.x - x)
          + (ds[i].position.y - y) * (ds[i].position.y - y)
            < minDistance * minDistance

\* a placement loop that gives up after half the attempts
RECURSIVE PlaceFromHalf(_, _, _)
PlaceFromHalf(ds, draws, attempts) ==
    LET n == attempts + 1
        x == PosX(draws[n])
        y == PosY(draws[n])
    IN  IF IsPositionOccupied(ds, x, y) /\ 2 * n < maxAttempts
        THEN PlaceFromHalf(ds, draws, n)
        ELSE [x |-> x, y |-> y, attempts |-> n]

\* the do-while loop of createDisc and repositionDisc after `attempts` draws
RECURSIVE PlaceFrom(_, _, _)
PlaceFrom(ds, draws, attempts) ==
    LET n == attempts + 1
        x == PosX(draws[n])
        y == PosY(draws[n])
    IN  IF IsPositionOccupied(ds, x, y) /\ n < maxAttempts
        THEN PlaceFrom(ds, draws, n)
        ELSE [x |-> x, y |-> y, attempts |-> n]

Place(ds, draws) == PlaceFrom(ds, draws, 0)

\* floatSpeed = 0.008 world units a tick
floatSpeed == (8 * worldUnit) \div 1000

\* (cos(angle), sin(angle)) * floatSpeed for the draw of the angle: two
\* directions of the 3-4-5 triangle, towards minX and away from or towards minY
Heading(turn) ==
    [x |-> 0 - (3 * floatSpeed) \div 5,
     y |-> IF turn = 0 THEN (4 * floatSpeed) \div 5 ELSE 0 - (4 * floatSpeed) \div 5]

\* disc.position and disc.userData of a new disc
Entry(id, t, p, color, turn) ==
    NewDisc(id, t) @@
    [color |-> color, position |-> [x |-> p.x, y |-> p.y],
     originX |-> p.x, originY |-> p.y, floatPhase |-> turn, velocity |-> Heading(turn)]

CreateDisc(draws, color, turn) ==
    /\ UNCHANGED trackerVars
    /\ Len(discs) < MaxPlaced
    /\ discs' = Append(discs, Entry(nextId, now, Place(discs, draws), color, turn))
    /\ nextId' = nextId + 1
    /\ UNCHANGED <<scoreVars, aimVars, gestureVars, isShooting, lockVars,
                   timerVars, loopVars, initVars, now, histVars, tickVars>>

\* a repositionDisc that moves the displayed disc as well
RepositionedAtOnce(d, p, turn, t) ==
    [d EXCEPT !.originX = p.x, !.originY = p.y, !.createdAt = t,
              !.floatPhase = turn, !.velocity = Heading(turn),
              !.position = [x |-> p.x, y |-> p.y]]

\* the entry of a disc after repositionDisc
Repositioned(d, p, turn, t) ==
    [d EXCEPT !.originX = p.x, !.originY = p.y, !.createdAt = t,
              !.floatPhase = turn, !.velocity = Heading(turn)]

\* update() calls repositionDisc for a disc older than lifeTime
RepositionDisc(i, draws, turn) ==
    /\ UNCHANGED trackerVars
    /\ now - discs[i].createdAt > lifeTime
    /\ discs' = [discs EXCEPT ![i] = Repositioned(@, Place(discs, draws), turn, now)]
    /\ UNCHANGED <<scoreVars, aimVars, gestureVars, isShooting, lockVars, nextId,
                   timerVars, loopVars, initVars, now, histVars, tickVars>>

\* two targets past their lifetime in opposite corners of the world, the
\* last tick having locked one of them or none
InitPlace ==
    /\ now = StartNow
    /\ score = 0 /\ combo = 1 /\ maxCombo = 1 /\ hits = 0 /\ shots = 0
    /\ lastHitTime = 0
    /\ targetX = innerWidth \div 4 /\ targetY = innerHeight \div 2
    /\ isGunPose = TRUE /\ wasThumbUp = TRUE /\ isShooting = FALSE
    /\ lockedTarget \in {NoDisc, 1, 2}
    /\ wasLocked = (lockedTarget # NoDisc)
    /\ running = TRUE
    /\ discs = <<Entry(1, now - lifeTime - 1, [x |-> PosX(<<0, 0>>), y |-> PosY(<<0, 0>>)], 0, 0),
                 Entry(2, now - lifeTime - 1, [x |-> PosX(<<9, 9>>), y |-> PosY(<<9, 9>>)], 0, 0)>>
    /\ nextId = 3
    /\ accuracyDisplay = Unwritten
    /\ cooldownTimers = <<>> /\ respawnTimers = <<>> /\ spawnTimers = <<>>
    /\ rafPending = 1
    /\ phase = "started" /\ initTimer = now - lifeTime - 1
    /\ sinceFire = "none" /\ firedAt = Never /\ notified = <<>> /\ lostSince = FALSE /\ staleLock = FALSE
    /\ consumed = FALSE
    /\ finalTarget = IF lockedTarget # NoDisc
                     THEN Pulled(NearPoint, targetX, targetY)
                     ELSE Unpulled(targetX, targetY)
    /\ tickLocked = (lockedTarget # NoDisc) /\ ranSincePause = TRUE
    /\ frameFault = FALSE /\ faultParity = FALSE
    /\ NewHandTracker /\ skeletonCtx = FALSE

NextPlace ==
    \/ \E draws \in DrawSeqs, color \in Colors, turn \in Turns :
          CreateDisc(draws, color, turn)
    \/ \E i \in 1..Len(discs), draws \in DrawSeqs, turn \in Turns :
          RepositionDisc(i, draws, turn)

SpecPlace == InitPlace /\ [][NextPlace]_vars

(***************************************************************************)
(* Drift.  The disc loop of update() on the full entries of the registry:  *)
(* every frame comes DriftStep after the one before, draws one sway for    *)
(* the displayed positions and one series of random numbers for whatever   *)
(* it places; the page may be hidden and shown.                            *)
(***************************************************************************)
DriftStep == lifeTime \div 2

\* the clock advances at most MaxDriftSteps times
MaxDriftSteps == 3

DriftHorizon == StartNow + MaxDriftSteps * DriftStep

\* floatAmplitude is at most 0.5 world units
maxSway == worldUnit \div 2

\* (floatX, floatY) of a frame
Sways == {[x |-> 0, y |-> 0], [x |-> maxSway, y |-> 0]}

\* what a frame draws: the random numbers of its placements, the draw for
\* floatPhase and the angle, the sway
FrameDraws ==
    {[draws |-> [k \in 1..maxAttempts |-> c], turn |-> turn, sway |-> sway] :
        c \in {<<0, 0>>, <<5, 5>>}, turn \in Turns, sway \in Sways}

\* age > lifeTime with the bound included
ExpiredAtLifeTime(d, t) == t - d.createdAt >= lifeTime

\* age > this.discConfig.lifeTime
Expired(d, t) == t - d.createdAt > lifeTime

\* a reflection that turns the velocity and leaves the origin outside
ReflectedUnclamped(o, v, lo, hi) ==
    IF o < lo \/ o > hi THEN [o |-> o, v |-> 0 - v] ELSE [o |-> o, v |-> v]

\* one coordinate of the origin after the bounds check
Reflected(o, v, lo, hi) ==
    IF o < lo \/ o > hi THEN [o |-> Max(lo, Min(hi, o)), v |-> 0 - v]
    ELSE [o |-> o, v |-> v]

\* a disc after the float and drift steps of the loop
Drifted(d, sway) ==
    LET rx == Reflected(d.originX + d.velocity.x, d.velocity.x, minX, maxX)
        ry == Reflected(d.originY + d.velocity.y, d.velocity.y, minY, maxY)
    IN  [d EXCEPT !.position = [x |-> d.originX + sway.x, y |-> d.originY + sway.y],
                  !.originX = rx.o, !.originY = ry.o,
                  !.velocity = [x |-> rx.v, y |-> ry.v]]

\* for (const disc of this.discs), from the i-th disc on
RECURSIVE LoopFrom(_, _, _, _)
LoopFrom(ds, i, in, t) ==
    IF i > Len(ds) THEN ds
    ELSE LET moved == [ds EXCEPT ![i] = Drifted(@, in.sway)]
         IN  LoopFrom(IF Expired(moved[i], t)
                      THEN [moved EXCEPT ![i] =
                               Repositioned(@, Place(moved, in.draws), in.turn, t)]
                      ELSE moved,
                      i + 1, in, t)

\* while (this.discs.length < maxCount) this.createDisc()
RECURSIVE Filled(_, _, _, _)
Filled(ds, id, in, t) ==
    IF Len(ds) < maxCount
    THEN Filled(Append(ds, Entry(id, t, Place(ds, in.draws), colorCount - 1, in.turn)),
                id + 1, in, t)
    ELSE ds

\* the disc loop and the top-up of an update() at time t
EntryLoop(in, t) ==
    /\ discs' = Filled(LoopFrom(discs, 1, in, t), nextId, in, t)
    /\ nextId' = nextId + (Len(discs') - Len(discs))

\* update() on the full entries
DriftUpdate(proj, in, t) ==
    /\ Acquire(proj)
    /\ ranSincePause' = TRUE
    /\ frameFault' = FALSE /\ UNCHANGED faultParity
    /\ EntryLoop(in, t)

\* a requestAnimationFrame callback, DriftStep after the last frame
DriftFrame(proj, in) ==
    /\ UNCHANGED trackerVars
    /\ rafPending > 0
    /\ IF Stopped(running)
       THEN /\ rafPending' = rafPending - 1
            /\ UNCHANGED <<lockVars, discVars, staleLock, tickVars, now>>
       ELSE /\ now + DriftStep <= DriftHorizon
            /\ now' = now + DriftStep
            /\ UNCHANGED rafPending
            /\ DriftUpdate(proj, in, now')
    /\ UNCHANGED <<scoreVars, aimVars, gestureVars, isShooting, timerVars,
                   running, initVars, fireHist, lostSince, consumed>>

\* resume() on the full entries, DriftStep after the last step
DriftResume(proj, in) ==
    /\ UNCHANGED trackerVars
    /\ rafPending < MaxRaf
    /\ IF ~running
       THEN /\ now + DriftStep <= DriftHorizon
            /\ now' = now + DriftStep
            /\ running' = TRUE
            /\ rafPending' = rafPending + 1
            /\ DriftUpdate(proj, in, now')
       ELSE UNCHANGED <<running, rafPending, lockVars, discVars, staleLock, tickVars, now>>
    /\ UNCHANGED <<scoreVars, aimVars, gestureVars, isShooting, timerVars,
                   initVars, fireHist, lostSince, consumed>>

\* time passes on a hidden page
Hidden(d) ==
    /\ UNCHANGED trackerVars
    /\ ~running
    /\ now + d <= DriftHorizon
    /\ now' = now + d
    /\ UNCHANGED <<scoreVars, aimVars, gestureVars, isShooting, lockVars, discVars,
                   timerVars, loopVars, initVars, histVars, tickVars>>

\* two targets in a running game: one in the corner of minX and minY, an
\* update() ago, drifting out of the world; one in the middle, just created
InitDrift ==
    /\ now = StartNow
    /\ score = 0 /\ combo = 1 /\ maxCombo = 1 /\ hits = 0 /\ shots = 0
    /\ lastHitTime = 0
    /\ targetX = innerWidth \div 4 /\ targetY = innerHeight \div 2
    /\ isGunPose = TRUE /\ wasThumbUp = TRUE /\ isShooting = FALSE
    /\ lockedTarget = NoDisc /\ wasLocked = FALSE
    /\ running = TRUE
    /\ \E turn \in Turns :
          discs = <<Entry(1, now - DriftStep,
                          [x |-> PosX(<<0, 0>>), y |-> PosY(<<0, 0>>)], 0, turn),
                    Entry(2, now, [x |-> PosX(<<5, 5>>), y |-> PosY(<<5, 5>>)], 0, 0)>>
    /\ nextId = 3
    /\ accuracyDisplay = Unwritten
    /\ cooldownTimers = <<>> /\ respawnTimers = <<>> /\ spawnTimers = <<>>
    /\ rafPending = 1
    /\ phase = "started" /\ initTimer = now - DriftStep
    /\ sinceFire = "none" /\ firedAt = Never /\ notified = <<>> /\ lostSince = FALSE /\ staleLock = FALSE
    /\ consumed = FALSE
    /\ finalTarget = Unpulled(targetX, targetY)
    /\ tickLocked = FALSE /\ ranSincePause = TRUE
    /\ frameFault = FALSE /\ faultParity = FALSE
    /\ NewHandTracker /\ skeletonCtx = FALSE

NextDrift ==
    \/ \E in \in FrameDraws : DriftFrame([i \in 1..Len(discs) |-> FarPoint], in)
    \/ Pause
    \/ \E in \in FrameDraws : DriftResume([i \in 1..Len(discs) |-> FarPoint], in)
    \/ Hidden(DriftStep)

SpecDrift == InitDrift /\ [][NextDrift]_vars

(***************************************************************************)
(* The cooldown.  A session in progress, the clock advancing by half a     *)
(* cooldown; the page may be hidden and shown and the hand lost.  The      *)
(* player stops one cooldown before the end of the run.                    *)
(***************************************************************************)
CoolStep == shootCooldown \div 2

\* the clock advances at most MaxCoolSteps times
MaxCoolSteps == 4

CoolHorizon == StartNow + MaxCoolSteps * CoolStep

Pass(d) ==
    /\ UNCHANGED trackerVars
    /\ now + d <= CoolHorizon
    /\ now' = now + d
    /\ UNCHANGED <<scoreVars, aimVars, gestureVars, isShooting, lockVars, discVars,
                   timerVars, loopVars, initVars, histVars, tickVars>>

Playing == now + shootCooldown <= CoolHorizon

NextCooldown ==
    \/ /\ Playing
       /\ \E gun \in BOOLEAN, thumbUp \in BOOLEAN, tip \in FingerTips :
              UpdateGesture(gun, thumbUp, tip)
    \/ OnGestureLost
    \/ Playing /\ ManualFire
    \/ CooldownExpiry
    \/ RespawnTimer
    \/ \E proj \in Projections(Len(discs)) : Frame(proj)
    \/ Pause
    \/ \E proj \in Projections(Len(discs)) : Resume(proj)
    \/ Pass(CoolStep)

\* a timer that is due runs, and time passes
SpecCooldown ==
    /\ InitAim
    /\ [][NextCooldown]_vars
    /\ WF_vars(CooldownExpiry)
    /\ WF_vars(Pass(CoolStep))

(***************************************************************************)
(* The tracker.  The page has loaded and HandTracker.init() has looked up  *)
(* the skeleton canvas; every detection result shows no hand or a hand     *)
(* whose fingers each take one of a few poses.                             *)
(***************************************************************************)
Point(x, y, z) == [x |-> x, y |-> y, z |-> z]

Wrist == Point(50, 90, 0)

\* the index finger: <<tip, pip, mcp>>
IndexPoses ==
    {<<Point(50, 10, 0), Point(50, 40, 0), Point(50, 60, 0)>>,   \* extended
     <<Point(50, 55, 0), Point(50, 40, 0), Point(50, 60, 0)>>,   \* curled
     <<Point(50, 10, 0), Point(50, 60, 0), Point(50, 60, 0)>>,   \* pip on mcp
     <<Point(50, 60, 9), Point(50, 40, 0), Point(50, 60, 0)>>,   \* tip over mcp
     <<Point(50, 60, 0), Point(50, 60, 0), Point(50, 60, 0)>>}   \* one point

\* another finger: <<tip, pip>>
FingerPoses ==
    {<<Point(50, 70, 0), Point(50, 50, 0)>>,                     \* folded
     <<Point(50, 10, 0), Point(50, 50, 0)>>,                     \* extended
     <<Point(50, 40, 0), Wrist>>}                                \* pip on the wrist

\* the little finger folds or stretches with the ring finger or against it
PlainPoses == {f \in FingerPoses : f[2] # Wrist}

\* the thumb: <<tip, ip>>
ThumbPoses ==
    {<<Point(40, 50, 0), Point(40, 60, 0)>>,                     \* up
     <<Point(40, 62, 0), Point(40, 60, 0)>>}                     \* down

Hands ==
    {[wrist |-> Wrist,
      thumbTip |-> t[1], thumbIp |-> t[2],
      indexTip |-> i[1], indexPip |-> i[2], indexMcp |-> i[3],
      middleTip |-> m[1], middlePip |-> m[2],
      ringTip |-> r[1], ringPip |-> r[2],
      pinkyTip |-> p[1], pinkyPip |-> p[2]] :
        t \in ThumbPoses, i \in IndexPoses, m \in FingerPoses, r \in PlainPoses,
        p \in PlainPoses}

InitTracker ==
    /\ NewGame
    /\ NewHandTracker /\ skeletonCtx \in BOOLEAN

\* results.multiHandLandmarks: no hand, or the landmarks of one (maxNumHands = 1)
Results == {NoHand} \cup {<<lm>> : lm \in Hands}

NextTracker == \E results \in Results : ProcessResults(results)

SpecTracker == InitTracker /\ [][NextTracker]_vars

(***************************************************************************)
(* HandTracker.detect, the camera's onFrame callback.  One step is one     *)
(* detection cycle: the throttle, hands.send(), processResults() on its    *)
(* result and the game's callbacks.  The hand shows the gun or a fist, the *)
(* thumb up or down, or points at the camera.                              *)
(***************************************************************************)
detectionInterval == 33

\* a throttle that lets a frame through after half the interval
ThrottledBelowHalf(t, last) == t - last < detectionInterval \div 2

\* if (now - this.lastDetectionTime < this.detectionInterval) return
Throttled(t, last) == t - last < detectionInterval

\* the published fingertip in the quarters of the screen the game's aim is
\* kept in
Quarter(pos) ==
    [x |-> (4 * pos.x) \div (Grid * pos.den), y |-> (4 * pos.y) \div (Grid * pos.den)]

\* updateGesture(gestureState) whose shoot() throws after it has counted the
\* shot: no hit or miss, no cooldown timer, wasThumbUp not written
FaultyGestureUpdate(tip) ==
    /\ isGunPose' = TRUE
    /\ targetX' = (tip.x * innerWidth) \div 4
    /\ targetY' = (tip.y * innerHeight) \div 4
    /\ isShooting' = TRUE
    /\ shots' = shots + 1
    /\ firedAt' = now
    /\ notified' = <<>>
    /\ sinceFire' = "down"
    /\ lostSince' = FALSE
    /\ UNCHANGED <<score, combo, maxCombo, hits, lastHitTime, accuracyDisplay,
                   wasThumbUp, lockVars, discVars, timerVars, staleLock, consumed,
                   loopVars, initVars, tickVars>>

\* the result calls updateGesture and that calls shoot()
Fires(results) ==
    /\ Len(results) > 0
    /\ ~DrawSkeletonThrows(results[1])
    /\ IsGunPose(IndexExtended(results[1]), MiddleFolded(results[1]),
                 RingFolded(results[1]), PinkyFolded(results[1]))
    /\ ~ThumbUp(results[1])
    /\ wasThumbUp /\ ~isShooting

\* the times of the last two submissions
LastTwo(ts) == IF Len(ts) > 2 THEN Tail(ts) ELSE ts

\* what can go wrong in a cycle: nothing, hands.send() rejects, shoot() throws
Faults == {"none", "send", "shoot"}

Detect(results, fault) ==
    /\ phase \in {"tracking", "started"}
    /\ fault = "send" => results = NoHand
    /\ fault = "shoot" => Fires(results)
    /\ UNCHANGED <<skeletonCtx, now>>
    /\ IF Throttled(now, lastDetectionTime)
       THEN /\ frameFate' = "dropped"
            /\ UNCHANGED <<lastDetectionTime, sendTimes, gestureState, smoothedPosition,
                           signals, resultCount>>
            /\ UNCHANGED <<scoreVars, aimVars, gestureVars, isShooting, lockVars,
                           discVars, timerVars, loopVars, initVars, histVars, tickVars>>
       ELSE /\ lastDetectionTime' = now
            /\ frameFate' = "sent"
            /\ sendTimes' = LastTwo(Append(sendTimes, now))
            /\ IF fault = "send"
               THEN /\ UNCHANGED <<gestureState, smoothedPosition, signals, resultCount>>
                    /\ UNCHANGED <<scoreVars, aimVars, gestureVars, isShooting, lockVars,
                                   discVars, timerVars, loopVars, initVars, histVars,
                                   tickVars>>
               ELSE /\ Processed(results, fault = "shoot")
                    /\ IF Len(results) = 0
                       THEN GestureLost
                       ELSE IF DrawSkeletonThrows(results[1])
                       THEN UNCHANGED <<scoreVars, aimVars, gestureVars, isShooting,
                                        lockVars, discVars, timerVars, loopVars,
                                        initVars, histVars, tickVars>>
                       ELSE IF fault = "shoot"
                       THEN FaultyGestureUpdate(Quarter(gestureState'.fingerTip))
                       ELSE GestureUpdate(gestureState'.isGunPose,
                                          gestureState'.isThumbUp,
                                          Quarter(gestureState'.fingerTip))

DetectStep == detectionInterval \div 3

MaxDetectSteps == 6

DetectHorizon == StartNow + MaxDetectSteps * DetectStep + shootCooldown

\* time passes: at most MaxDetectSteps short steps, and cooldowns in between
Elapse(d) ==
    /\ UNCHANGED trackerVars
    /\ now + d <= DetectHorizon
    /\ ((now - StartNow) % shootCooldown) + d <= MaxDetectSteps * DetectStep + shootCooldown
    /\ d < shootCooldown =>
           ((now - StartNow) % shootCooldown) + d <= MaxDetectSteps * DetectStep
    /\ now' = now + d
    /\ UNCHANGED <<scoreVars, aimVars, gestureVars, isShooting, lockVars, discVars,
                   timerVars, loopVars, initVars, histVars, tickVars>>

\* the gun (index extended) with the thumb up or down, and the index
\* pointing at the camera
DetectHands ==
    {lm \in Hands :
        /\ lm.middleTip.y > lm.middlePip.y /\ lm.ringTip.y > lm.ringPip.y
        /\ lm.pinkyTip.y > lm.pinkyPip.y
        /\ lm.indexPip = Point(50, 40, 0) /\ lm.middlePip # Wrist
        /\ lm.indexTip.y < lm.indexPip.y \/ (lm.indexTip.z > 0 /\ lm.thumbTip.y < lm.thumbIp.y)}

DetectResults == {NoHand} \cup {<<lm>> : lm \in DetectHands}

InitDetect ==
    /\ GameInSession(0, 0, StreakGap)
    /\ NewHandTracker /\ skeletonCtx \in BOOLEAN

NextDetect ==
    \/ \E results \in DetectResults, fault \in Faults : Detect(results, fault)
    \/ CooldownExpiry
    \/ Elapse(DetectStep)
    \/ Elapse(shootCooldown)

SpecDetect == InitDetect /\ [][NextDetect]_vars

\* the identities in a registry
Ids(ds) == {ds[i].id : i \in 1..Len(ds)}

(***************************************************************************)
(* Properties of the acquisition step                                      *)
(***************************************************************************)
\* the targets a projection puts strictly inside the capture radius
InRange(proj) ==
    {i \in 1..Len(proj) : Dist2(proj[i], targetX, targetY) < 120 * 120}

\* the first in registry order of the targets at minimum distance
Closest(proj) ==
    CHOOSE i \in InRange(proj) :
        \A j \in InRange(proj) :
            \/ Dist2(proj[i], targetX, targetY) < Dist2(proj[j], targetX, targetY)
            \/ /\ Dist2(proj[i], targetX, targetY) = Dist2(proj[j], targetX, targetY)
               /\ i <= j

\* a render tick that ran update() with the projections proj
Tick(proj) == running /\ Frame(proj)

\* C12: after the acquisition step of a tick, lockedTarget is the target of
\* minimum distance among those projected strictly less than 120 px from the
\* raw aim point (the first of the registry among equal minima) when
\* isGunPose holds and there is one, and null otherwise, whatever the lock
\* was before.
C12_LockIsNearest ==
    [][\A proj \in AimProjections(Len(discs)) :
          Tick(proj) =>
              lockedTarget' = IF isGunPose /\ InRange(proj) # {}
                              THEN discs[Closest(proj)].id
                              ELSE NoDisc]_vars

\* C12 witness: the lock is on the second target of the registry, 60 px away
\* in the direction of NearPoint.
C12_Witness ==
    /\ Len(discs) = maxCount /\ lockedTarget = discs[2].id
    /\ finalTarget = Pulled(NearPoint, targetX, targetY)

\* f lies on the segment from a to b
OnSegment(a, b, f) ==
    /\ Min(a.x, b.x) <= f.x /\ f.x <= Max(a.x, b.x)
    /\ Min(a.y, b.y) <= f.y /\ f.y <= Max(a.y, b.y)
    /\ (f.x - a.x) * (b.y - a.y) = (f.y - a.y) * (b.x - a.x)

C14_LockSoundOnce ==
    [][\A proj \in AimProjections(Len(discs)) :
          Tick(proj) =>
              /\ PlaysLock(proj) <=> (lockedTarget' # NoDisc /\ ~wasLocked)
              /\ PlaysLock(proj) => ~tickLocked
              /\ (lockedTarget' # NoDisc /\ ~tickLocked) => PlaysLock(proj)]_vars

\* C14 witness: after a hit the lock is on the target created to replace the
\* one hit, and the ticks have been locked throughout.
C14_Witness ==
    /\ tickLocked /\ wasLocked /\ hits = maxCount + 2
    /\ lockedTarget = nextId - 1 /\ lockedTarget \notin Ids(StreakDiscs(maxCount + 1, 0))

\* C15: once every spawn timer of start() has fired, the registry holds at
\* most maxCount targets.
C15_AtMostMaxCount ==
    (phase = "started" /\ spawnTimers = <<>>) => Len(discs) <= maxCount

(***************************************************************************)
(* Properties of placement                                                 *)
(***************************************************************************)
\* C16: a step that repositions the i-th entry of the registry leaves the
\* number of entries, every other entry, and the entry's identity, points,
\* colour and displayed position as they were, and a lock on it stays on an
\* entry of the registry; the entry gets createdAt = now.
C16_RelocationKeepsEntry ==
    [][\A i \in 1..Len(discs) :
          (nextId' = nextId /\ discs'[i] # discs[i]) =>
              /\ Len(discs') = Len(discs)
              /\ \A j \in 1..Len(discs) : j # i => discs'[j] = discs[j]
              /\ discs'[i].id = discs[i].id
              /\ discs'[i].points = discs[i].points
              /\ discs'[i].color = discs[i].color
              /\ discs'[i].position = discs[i].position
              /\ discs'[i].createdAt = now
              /\ lockedTarget' = lockedTarget
              /\ lockedTarget = discs[i].id => lockedTarget' \in Ids(discs')]_vars

\* C16 witness: the locked target has been given a new origin away from
\* where it is displayed.
C16_Witness ==
    /\ lockedTarget = 1 /\ discs[1].id = 1 /\ discs[1].createdAt = now
    /\ discs[1].originX # discs[1].position.x

\* C17: whatever is drawn, a placement ends after 1 to maxAttempts draws at
\* the position of its last draw, inside the world bounds; every earlier
\* draw was within minDistance of a displayed target, and the position
\* returned is so only if the draw was the last allowed.
C17_PlacementBounded ==
    \A draws \in DrawSeqs :
        LET r == Place(discs, draws)
        IN  /\ r.attempts \in 1..maxAttempts
            /\ r.x = PosX(draws[r.attempts]) /\ r.y = PosY(draws[r.attempts])
            /\ minX <= r.x /\ r.x <= maxX /\ minY <= r.y /\ r.y <= maxY
            /\ \A k \in 1..(r.attempts - 1) :
                  IsPositionOccupied(discs, PosX(draws[k]), PosY(draws[k]))
            /\ IsPositionOccupied(discs, r.x, r.y) => r.attempts = maxAttempts

\* C17 witness: a target was created within minDistance of another, which
\* takes maxAttempts draws.
C17_Witness ==
    /\ Len(discs) = 3
    /\ IsPositionOccupied(SubSeq(discs, 1, 2), discs[3].position.x, discs[3].position.y)

(***************************************************************************)
(* Properties of the render loop                                           *)
(***************************************************************************)
\* C18: whatever start, pause and resume calls have been made, at most one
\* requestAnimationFrame callback is pending.
C18_OneLoopChain == rafPending <= 1

\* C19: while the game is paused no update() has run since pause(), and a
\* step that leaves it paused schedules no frame callback.
C19_PausedLoopIdle ==
    /\ [](~running => ~ranSincePause)
    /\ [][(~running /\ ~running') => rafPending' <= rafPending]_vars

\* C19 witness: the game was started and then paused with a frame callback
\* pending; the callback has run and left nothing scheduled.
C19_Witness ==
    /\ ~running /\ phase = "started" /\ rafPending = 0 /\ ~ranSincePause
    /\ Len(discs) >= maxCount

\* C20: once the tracker has failed to initialise, running does not become
\* true, no frame callback is scheduled and no target is created.
C20_FailedStaysIdle ==
    [][phase = "failed" =>
          /\ running' => running
          /\ rafPending' <= rafPending
          /\ Len(discs') <= Len(discs)]_vars

\* C21: after a tick that threw, while running is true a frame callback is
\* pending, and a later tick executes unless the game is paused first.
C21_FaultKeepsLoop ==
    /\ []((frameFault /\ running) => rafPending > 0)
    /\ \A b \in BOOLEAN :
          (frameFault /\ running /\ faultParity = b)
              ~> (~frameFault \/ ~running \/ faultParity # b)

\* C21 witness: a tick threw after its acquisition step had locked a target.
C21_Witness ==
    /\ frameFault /\ running /\ rafPending > 0
    /\ lockedTarget # NoDisc /\ tickLocked

(***************************************************************************)
(* Properties of the lock and the registry                                 *)
(***************************************************************************)

\* C11: lockedTarget is null or a target of the registry; a removed target
\* does not stay referenced by the lock, and no target is hit twice: a hit
\* removes its target, and an identity that left the registry never returns.
C11_LockIsLive ==
    /\ [](lockedTarget = NoDisc \/ lockedTarget \in Ids(discs))
    /\ [][/\ hits' = hits + 1 =>
                 (lockedTarget \in Ids(discs) /\ lockedTarget \notin Ids(discs'))
          /\ \A id \in Ids(discs') : id \in Ids(discs) \/ id >= nextId]_vars

\* C11 witness: a target has been hit and removed, and a later frame holds a
\* lock on another one.
C11_Witness ==
    /\ hits = 1 /\ lockedTarget # NoDisc
    /\ lockedTarget \in Ids(discs) /\ Len(discs) >= maxCount

(***************************************************************************)
(* Properties of the trigger                                               *)
(***************************************************************************)
\* C7: between any two fire events produced by updateGesture some detection
\* cycle reported the thumb up, also when the gun pose is lost and regained
\* while the thumb stays down.
C7_OneFirePerThumbDown == [][GestureFire => sinceFire # "down"]_vars

\* C8: no fire event happens while isShooting is true, by gesture or by the
\* space key; a thumb-down edge seen during the cooldown clears wasThumbUp
\* and produces no fire afterwards while the thumb stays down.
C8_CooldownSwallowsEdge ==
    [][/\ (shots' # shots \/ hits' # hits) => ~isShooting
       /\ (isShooting /\ wasThumbUp /\ GunDownUpdate) =>
              (~wasThumbUp' /\ shots' = shots)
       /\ GestureFire => ~consumed]_vars

\* C9: after a tracking loss, the first gesture update that reports the gun
\* pose does not fire when it shows the thumb down.
C9_NoFireOnReacquire == [][(lostSince /\ GunDownUpdate) => shots' = shots]_vars

\* C10: a tracking loss clears isGunPose and drops the lock, so no later fire
\* event scores a hit on a lock acquired before the loss.
C10_LossDropsLock ==
    [][/\ OnGestureLost =>
              (~isGunPose' /\ lockedTarget' = NoDisc /\ ~wasLocked')
       /\ hits' # hits => ~staleLock]_vars

(***************************************************************************)
(* Properties of the tracker                                               *)
(***************************************************************************)
\* how often the last processResults() invoked the callback
Calls(name) == Cardinality({i \in 1..Len(signals) : signals[i] = name})

\* the last processResults() published a gesture state to the game
Published == Calls("onGestureUpdate") > 0

\* the four verdicts on a hand: index extended, middle, ring, pinky folded
Verdicts(lm) == <<IndexExtended(lm), MiddleFolded(lm), RingFolded(lm), PinkyFolded(lm)>>

\* C22: every detection result produces exactly one signal to the game:
\* onTrackingLost and not onGestureUpdate when it shows no hand,
\* onGestureUpdate and not onTrackingLost when it shows a hand.
C22_OneSignalPerResult ==
    [][resultCount' # resultCount =>
          IF gestureState'.landmarks = Null
          THEN Calls("onTrackingLost")' = 1 /\ Calls("onGestureUpdate")' = 0
          ELSE Calls("onGestureUpdate")' = 1 /\ Calls("onTrackingLost")' = 0]_vars

\* the verdicts of the aim gesture, among the sixteen combinations
GunCombinations ==
    {<<TRUE, TRUE, TRUE, TRUE>>, <<TRUE, TRUE, TRUE, FALSE>>,
     <<TRUE, TRUE, FALSE, TRUE>>, <<TRUE, FALSE, TRUE, TRUE>>}

\* C23: the published isGunPose is true exactly when the index finger is
\* classified extended and at least two of the middle, ring and little
\* finger are classified folded.
C23_GunPoseVerdicts ==
    Published =>
        (gestureState.isGunPose <=> Verdicts(gestureState.landmarks[1]) \in GunCombinations)

C23_Witness ==
    /\ Published /\ gestureState.isGunPose
    /\ Verdicts(gestureState.landmarks[1]) = <<TRUE, FALSE, TRUE, TRUE>>

\* the double x * n, for n in 0..3
FloatTimes(x, n) ==
    CASE n = 0 -> FloatZero
      [] n = 1 -> x
      [] n = 2 -> [x EXCEPT !.e = x.e + 1]
      [] n = 3 -> FloatAdd([x EXCEPT !.e = x.e + 1], x)

\* the doubles 1 and 0.8
FloatOne   == [m |-> Bits([i \in 1..MantBits |-> IF i = 1 THEN 1 ELSE 0]), e |-> 1]
GunFloor   == FloatDiv(4, 5)

\* C24: the published confidence is 0.4 for an extended index finger plus
\* 0.2 for each folded finger among middle, ring and little finger, and lies
\* in [0, 1]; the aim gesture has confidence >= 0.8, confidence 1 is the aim
\* gesture, and a result without a hand leaves confidence 0.
C24_ConfidenceWeights ==
    /\ Published =>
          LET v == Verdicts(gestureState.landmarks[1])
              c == gestureState.confidence
          IN  /\ c = FloatAdd(FloatTimes(FloatDiv(2, 5), IF v[1] THEN 1 ELSE 0),
                              FloatTimes(FloatDiv(1, 5), OthersFolded(v[2], v[3], v[4])))
              /\ FloatLeq(FloatZero, c) /\ FloatLeq(c, FloatOne)
              /\ gestureState.isGunPose => FloatLeq(GunFloor, c)
              /\ c = FloatOne => gestureState.isGunPose
    /\ Calls("onTrackingLost") > 0 => gestureState.confidence = FloatZero

C24_Witness ==
    /\ Published /\ gestureState.isGunPose
    /\ gestureState.confidence = GunFloor
    /\ Verdicts(gestureState.landmarks[1]) = <<TRUE, TRUE, FALSE, TRUE>>

\* a distance that divides a curl ratio is zero
Degenerate(lm) ==
    \/ DistanceSquared(lm.indexPip, lm.indexMcp) = 0
    \/ DistanceSquared(lm.middlePip, lm.wrist) = 0
    \/ DistanceSquared(lm.ringPip, lm.wrist) = 0
    \/ DistanceSquared(lm.pinkyPip, lm.wrist) = 0

\* C25: a hand with a zero distance under a curl ratio is published as not
\* recognized, isGunPose = false, with a finite confidence and fingertip.
C25_DegenerateNotRecognized ==
    (Published /\ Degenerate(gestureState.landmarks[1])) =>
        /\ ~gestureState.isGunPose
        /\ FloatLeq(gestureState.confidence, FloatOne)
        /\ gestureState.fingerTip.den > 0

(***************************************************************************)
(* Properties of the cooldown                                              *)
(***************************************************************************)
\* a fire event, by gesture or by the space key
FireEvent == shots' = shots + 1

\* isShooting goes back to false
CooldownEnds == isShooting /\ ~isShooting'

\* C26: every fire event sets isShooting and is followed, shootCooldown
\* later, by the expiry that clears it: the flag is cleared only by a timer
\* that is due, while isShooting holds its timer is pending, isShooting leads
\* to ~isShooting, and two consecutive fire events are at least shootCooldown
\* apart.
C26_CooldownEnds ==
    /\ [][/\ FireEvent =>
                /\ isShooting'
                /\ cooldownTimers' # <<>>
                /\ cooldownTimers'[Len(cooldownTimers')] = now + shootCooldown
                /\ firedAt # Never => now - firedAt >= shootCooldown
          /\ CooldownEnds =>
                /\ cooldownTimers # <<>>
                /\ now >= Head(cooldownTimers)
                /\ now >= firedAt + shootCooldown]_vars
    /\ [](isShooting => cooldownTimers # <<>>)
    /\ isShooting ~> ~isShooting

\* a second fire event of the run has followed the first one's expiry
C26_Witness ==
    /\ isShooting
    /\ shots = MaxMisses + maxCount + 3
    /\ firedAt >= StartNow + shootCooldown

\* C27: cooldown callbacks never stack: at most one is pending, isShooting
\* is true while one is pending, and the expiry that clears isShooting is the
\* one scheduled by the last fire event, also when the page is hidden or
\* shown or the hand is lost during the cooldown.
C27_OneCooldownTimer ==
    /\ [](Len(cooldownTimers) <= 1)
    /\ [](cooldownTimers # <<>> => isShooting)
    /\ [][CooldownEnds => Head(cooldownTimers) = firedAt + shootCooldown]_vars

\* a cooldown has ended on a hidden page after the hand was lost
C27_Witness ==
    /\ ~running /\ lostSince
    /\ ~isShooting /\ cooldownTimers = <<>>
    /\ firedAt >= StartNow

(***************************************************************************)
(* Properties of the render tick                                           *)
(***************************************************************************)
\* a step that runs update(): a frame callback of the running game, or the
\* gameLoop() call of resume()
RenderTick ==
    \E proj \in Projections(Len(discs)) : Tick(proj) \/ Resume(proj)

\* C28: score, combo, hits and shots change only in a render tick, and never
\* while the loop is paused.
C28_ScoringInTick ==
    [][<<score, combo, hits, shots>>' # <<score, combo, hits, shots>> =>
          running /\ RenderTick]_vars

\* C29: between a hit and the expiry of its respawn timer no target is
\* created, and the expiry creates one only if fewer than maxCount are live.
C29_RespawnAfterDelay ==
    [][/\ (respawnTimers # <<>> /\ respawnTimers' = respawnTimers) => nextId' = nextId
       /\ (respawnTimers # <<>> /\ respawnTimers' = Tail(respawnTimers)
              /\ nextId' # nextId) => Len(discs) < maxCount]_vars

\* C30: every render tick ends with at least maxCount live targets.
C30_TickTopsUp == [][RenderTick => Len(discs') >= maxCount]_vars

\* a tick has replaced the target of the run's first hit, whose respawn timer
\* is still pending
C30_Witness ==
    /\ hits = maxCount + 2 /\ respawnTimers # <<>>
    /\ Len(discs) = maxCount
    /\ nextId = 2 * maxCount + 3

(***************************************************************************)
(* Properties of the disc loop                                             *)
(***************************************************************************)
\* a step that runs update() on the full entries, at the time now'
DriftTick ==
    \E in \in FrameDraws :
        LET proj == [i \in 1..Len(discs) |-> FarPoint]
        IN  \/ running /\ DriftFrame(proj, in)
            \/ ~running /\ DriftResume(proj, in)

\* the origins a placement can draw
Drawn == {[x |-> PosX(c), y |-> PosY(c)] : c \in Cells}

\* C31: the first tick that finds a target older than lifeTime gives it a
\* freshly drawn origin and createdAt = now, a target of age <= lifeTime keeps
\* its createdAt, so every tick ends with all ages <= lifeTime; nothing is
\* relocated while the loop is paused.
C31_RelocatedWhenExpired ==
    /\ [][DriftTick =>
             /\ \A i \in 1..Len(discs) :
                   IF now' - discs[i].createdAt > lifeTime
                   THEN /\ discs'[i].id = discs[i].id
                        /\ discs'[i].createdAt = now'
                        /\ [x |-> discs'[i].originX, y |-> discs'[i].originY] \in Drawn
                   ELSE discs'[i].createdAt = discs[i].createdAt
             /\ \A i \in 1..Len(discs') : now' - discs'[i].createdAt <= lifeTime]_vars
    /\ [][(~running /\ ~running') => discs' = discs]_vars

\* the first target, older than lifeTime, has just been relocated; the
\* second, of age lifeTime exactly, has not
C31_Witness ==
    /\ Len(discs) >= 2 /\ discs[1].id = 1 /\ discs[2].id = 2
    /\ discs[1].createdAt = now
    /\ discs[2].createdAt = StartNow /\ now = StartNow + lifeTime

\* C32: the origin of every target lies inside the world bounds in every
\* state; a tick moves the origin of a target it does not relocate by the
\* velocity, and where that leaves the bounds it negates that component of
\* the velocity alone and puts the origin on the bound; the speed stays
\* floatSpeed.
C32_OriginInBounds ==
    /\ [](\A i \in 1..Len(discs) :
             /\ minX <= discs[i].originX /\ discs[i].originX <= maxX
             /\ minY <= discs[i].originY /\ discs[i].originY <= maxY
             /\ discs[i].velocity.x * discs[i].velocity.x
                  + discs[i].velocity.y * discs[i].velocity.y = floatSpeed * floatSpeed)
    /\ [][DriftTick =>
             \A i \in 1..Len(discs) :
                 now' - discs[i].createdAt <= lifeTime =>
                     LET ox == discs[i].originX + discs[i].velocity.x
                         oy == discs[i].originY + discs[i].velocity.y
                     IN  /\ discs'[i].originX = Max(minX, Min(maxX, ox))
                         /\ discs'[i].originY = Max(minY, Min(maxY, oy))
                         /\ discs'[i].velocity.x =
                               IF ox < minX \/ ox > maxX THEN 0 - discs[i].velocity.x
                               ELSE discs[i].velocity.x
                         /\ discs'[i].velocity.y =
                               IF oy < minY \/ oy > maxY THEN 0 - discs[i].velocity.y
                               ELSE discs[i].velocity.y]_vars

\* the target in the corner has been turned back at minX and has moved on
\* along y
C32_Witness ==
    /\ Len(discs) >= 1 /\ discs[1].id = 1
    /\ discs[1].originX = minX /\ discs[1].originY = minY + (4 * floatSpeed) \div 5
    /\ discs[1].velocity = [x |-> (3 * floatSpeed) \div 5, y |-> (4 * floatSpeed) \div 5]

(***************************************************************************)
(* Properties of the detection cycle                                       *)
(***************************************************************************)
\* a step that is one call of detect()
DetectCycle == \E results \in DetectResults, fault \in Faults : Detect(results, fault)

C34_TriggerRecovers == isShooting => cooldownTimers # <<>>

\* C35: a result without a hand publishes isGunPose = FALSE, confidence 0 and
\* landmarks null, and leaves the smoothed aim point, the published fingertip
\* and the published isThumbUp as they were.
C35_NoHandResult ==
    [][ProcessResults(NoHand) =>
          /\ gestureState'.isGunPose = FALSE
          /\ gestureState'.confidence = FloatZero
          /\ gestureState'.landmarks = Null
          /\ smoothedPosition' = smoothedPosition
          /\ gestureState'.fingerTip = gestureState.fingerTip
          /\ gestureState'.isThumbUp = gestureState.isThumbUp]_vars

\* the hand is lost after a result that published the thumb up and moved the
\* aim point
C35_Witness ==
    /\ signals = <<"onTrackingLost">>
    /\ gestureState.landmarks = Null /\ ~gestureState.isGunPose
    /\ gestureState.isThumbUp
    /\ smoothedPosition # Half /\ gestureState.fingerTip = smoothedPosition

\* C36: a gesture update without the gun pose fires nothing and leaves the
\* aim point, score, combo, hits, shots, isShooting and lockedTarget alone;
\* all it writes is isGunPose = FALSE and wasThumbUp = TRUE.  The aim point
\* changes in gesture updates with the gun pose only.
C36_NonGunUpdate ==
    /\ [][(\E thumbUp \in BOOLEAN, tip \in FingerTips : UpdateGesture(FALSE, thumbUp, tip)) =>
             /\ isGunPose' = FALSE /\ wasThumbUp' = TRUE
             /\ UNCHANGED <<aimVars, scoreVars, isShooting, lockVars, discVars, timerVars,
                            loopVars, initVars>>]_vars
    /\ [][aimVars' # aimVars =>
             \E thumbUp \in BOOLEAN, tip \in FingerTips : UpdateGesture(TRUE, thumbUp, tip)]_vars

\* the aim point has been moved and a target locked, a shot fired, and the
\* thumb is taken for raised although it has been down ever since: the last
\* update was one without the gun pose
C36_Witness ==
    /\ ~isGunPose /\ wasThumbUp /\ ~lostSince
    /\ sinceFire = "down" /\ shots > 0
    /\ targetX # innerWidth \div 2

(***************************************************************************)
(* Properties of the score                                                 *)
(***************************************************************************)
\* how often the calls n hold the event ev
Emitted(n, ev) == Cardinality({i \in 1..Len(n) : n[i].event = ev})

\* C37: a fire event emits one shoot notification and one of hit, perfect-hit
\* and miss: perfect-hit when a target was locked and the new combo is 5 or
\* more, hit when a target was locked and the new combo is below 5, miss
\* without a lock; a combo notification, carrying the new combo, is emitted
\* exactly when the fire was a hit and the new combo exceeds 1.  The score
\* grows by points * combo in either tier.
C37_FireNotifications ==
    [][FireEvent =>
          LET locked == lockedTarget # NoDisc
              n == notified'
          IN  /\ Emitted(n, "shoot") = 1
              /\ Emitted(n, "hit") + Emitted(n, "perfect-hit") + Emitted(n, "miss") = 1
              /\ Emitted(n, "perfect-hit") = 1 <=> (locked /\ combo' >= 5)
              /\ Emitted(n, "hit") = 1 <=> (locked /\ combo' < 5)
              /\ Emitted(n, "miss") = 1 <=> ~locked
              /\ Emitted(n, "combo") = IF locked /\ combo' > 1 THEN 1 ELSE 0
              /\ \A i \in 1..Len(n) : n[i].event = "combo" => n[i].level = combo'
              /\ Len(n) = Emitted(n, "shoot") + Emitted(n, "hit") + Emitted(n, "perfect-hit")
                            + Emitted(n, "miss") + Emitted(n, "combo")
              /\ locked => score' - score = discPoints * combo']_vars

\* the fifth hit of a streak: the first perfect hit
C37_Witness ==
    /\ combo = 5 /\ hits >= 5
    /\ notified = <<Call("shoot", 0), Call("perfect-hit", 0), Call("combo", 5)>>
    /\ firedAt = now /\ now > StartNow

\* C38: maxCombo is the running maximum of combo: combo <= maxCombo <= 10 in
\* every state, and no step lowers maxCombo; a miss and a hit after the
\* timeout reset combo, not maxCombo.
C38_MaxComboRunningMax ==
    /\ [](combo <= maxCombo /\ maxCombo <= comboCap)
    /\ [][/\ maxCombo' >= maxCombo
          /\ maxCombo' = Max(maxCombo, combo')]_vars

\* a miss after a streak: combo is back at 1, maxCombo stands
C38_Witness ==
    /\ combo = 1 /\ maxCombo = comboCap
    /\ notified = <<Call("shoot", 0), Call("miss", 0)>>
    /\ firedAt = now /\ now > StartNow

\* a step that registers a hit
HitEvent == hits' = hits + 1

\* C39: a hit takes the locked target, and nothing else, out of the registry
\* and clears lockedTarget; the lock is set by render ticks only and a fire
\* without a lock is a miss, so that between two successive ticks at most one
\* hit is registered and every further fire is a miss.
C39_HitRemovesLocked ==
    /\ [][HitEvent =>
             /\ lockedTarget # NoDisc /\ lockedTarget \in Ids(discs)
             /\ Len(discs') = Len(discs) - 1
             /\ lockedTarget \notin Ids(discs')
             /\ \A i \in 1..Len(discs) :
                    discs[i].id # lockedTarget =>
                        \E j \in 1..Len(discs') : discs'[j] = discs[i]
             /\ lockedTarget' = NoDisc]_vars
    /\ [][(lockedTarget' # NoDisc /\ lockedTarget' # lockedTarget) => RenderTick]_vars
    /\ [][(FireEvent /\ lockedTarget = NoDisc) =>
             /\ hits' = hits /\ discs' = discs
             /\ notified' = <<Call("shoot", 0), Call("miss", 0)>>]_vars

\* the page is hidden; the last tick had locked a target, a fire has hit it
\* and the fire after that was a miss
C39_Witness ==
    /\ ~running /\ ~ranSincePause
    /\ tickLocked /\ lockedTarget = NoDisc
    /\ hits = maxCount + 2
    /\ notified = <<Call("shoot", 0), Call("miss", 0)>>

\* C40: the score lies between 100 and 1000 points per hit, is a multiple of
\* 100 and never goes down; every fire is one hit or one miss, so that
\* shots - hits counts the misses.
C40_ScoreBounds ==
    /\ [](/\ discPoints * hits <= score /\ score <= comboCap * discPoints * hits
          /\ score % discPoints = 0
          /\ hits <= shots)
    /\ [][score' >= score]_vars
    /\ [][FireEvent =>
             LET hit  == Emitted(notified', "hit") + Emitted(notified', "perfect-hit")
                 miss == Emitted(notified', "miss")
             IN  /\ hit + miss = 1
                 /\ hits' = hits + hit
                 /\ shots' - hits' = (shots - hits) + miss]_vars
    /\ [][(hits' # hits \/ shots' # shots) => FireEvent]_vars

\* a hit has just been scored in a session with misses, and the score is
\* strictly between the bounds
C40_Witness ==
    /\ hits > 0 /\ shots > hits
    /\ discPoints * hits < score /\ score < comboCap * discPoints * hits
    /\ firedAt = now /\ now > StartNow
    /\ Emitted(notified, "hit") = 1


====
